---- MODULE Spec2Model ----
(***************************************************************************)
(* Model of fish's completion engine (complete.cpp): the process-wide      *)
(* completion store with its two locks, the per-request completer with its *)
(* condition cache, option validation and the printer.                     *)
(*                                                                         *)
(* A wcstring is a sequence of characters, a character a one-letter        *)
(* string; L'\0' is NUL and a null const wchar_t * is NULL.                *)
(***************************************************************************)
EXTENDS Integers, Sequences, FiniteSets, TLC

NUL == "NUL"
NULL == <<"NULL">>

\* wchar_t code points of the characters the model uses
CharCode(c) ==
    CASE c = "'" -> 39  [] c = "*" -> 42  [] c = "-" -> 45  [] c = "/" -> 47
      [] c = ":" -> 58  [] c = "=" -> 61  [] c = "?" -> 63
      [] c = "a" -> 97  [] c = "b" -> 98  [] c = "c" -> 99
      [] c = "l" -> 108 [] c = "s" -> 115 [] c = "x" -> 120 [] c = "y" -> 121
      [] OTHER -> 0

\* `if (p) field = p': a null pointer leaves the field the empty string
StrOrEmpty(p) == IF p = NULL THEN <<>> ELSE p

RECURSIVE StrLess(_, _)
\* std::wstring operator<
StrLess(a, b) ==
    IF b = <<>> THEN FALSE
    ELSE IF a = <<>> THEN TRUE
    ELSE IF CharCode(Head(a)) # CharCode(Head(b))
         THEN CharCode(Head(a)) < CharCode(Head(b))
    ELSE StrLess(Tail(a), Tail(b))

\* wcstring::find(c): 1-based index of the first c in s, 0 for npos
StrFind(s, c) ==
    IF \E i \in 1..Len(s) : s[i] = c
    THEN CHOOSE i \in 1..Len(s) : s[i] = c /\ \A j \in 1..(i - 1) : s[j] # c
    ELSE 0

\* wcstring::erase(idx, n) with a 1-based idx
StrErase(s, idx, n) ==
    SubSeq(s, 1, idx - 1) \o SubSeq(s, idx + n, Len(s))

(***************************************************************************)
(* result_mode bits (the index of modestr in complete_print)               *)
(***************************************************************************)
NO_FILES == 1
NO_COMMON == 2
EXCLUSIVE == 3

HasBit(mode, bit) == (mode \div bit) % 2 = 1

(***************************************************************************)
(* Bounds                                                                  *)
(***************************************************************************)
\* kCompleteOrder (an unsigned int, far from wrapping here) is capped: every
\* store operation constructs at least one completion_entry_t, so this also
\* bounds the number of operations
MaxOrder == 4
Threads == {1, 2}

VARIABLES
    completion_set,         \* std::set<completion_entry_t *>, in comparer order
    kCompleteOrder,         \* last value used in the order field
    completion_lock,        \* owner thread of completion_lock, 0 when free
    completion_entry_lock,  \* owner thread of completion_entry_lock, 0 when free
    pc,                     \* per thread: where it is in its store operation
    call,                   \* per thread: the operation and its arguments
    before,                 \* per thread: the entry complete_remove found, as it was
    crashed,                \* the process died on undefined behaviour
    phase,                  \* printer round trip: "store", "printed", "replayed"
    out,                    \* the lines complete_print appended to out
    replayed,               \* the store built by replaying out
    completer,              \* the completer_t of the request being served
    driver,                 \* complete()'s position and locals
    subshells,              \* the exec_subshell calls made so far, in order
    valid,                  \* the last complete_is_valid_option call and its result
    built,                  \* the candidates constructed, with the flags asked for
    snap,                   \* per thread: complete_param's all_options and progress
    loader,                 \* the autoloader, the main thread's queue, what was loaded
    sess,                   \* per session of the autoload model: its position
    matcher,                \* one complete_param call: its arguments, locals, progress
    probe                   \* the last short_ok or try_complete_variable call

storeVars == <<completion_set, kCompleteOrder>>
threadVars == <<completion_lock, completion_entry_lock, pc, call, before, crashed>>
printVars == <<phase, out, replayed>>
sessionVars == <<completer, driver, subshells>>
candidateVars == <<built>>
paramVars == <<snap>>
autoloadVars == <<loader, sess>>
matchVars == <<matcher, probe>>
vars == <<storeVars, threadVars, printVars, sessionVars, valid, candidateVars,
          paramVars, autoloadVars, matchVars>>

(***************************************************************************)
(* The store                                                               *)
(***************************************************************************)
\* completion_entry_t(c, type, options, author): order(++kCompleteOrder)
NewEntry(cmd, cmd_is_path, k) ==
    [cmd |-> cmd, cmd_is_path |-> cmd_is_path, authoritative |-> FALSE,
     order |-> k + 1, short_opt_str |-> <<>>, options |-> <<>>]

\* a std::set keyed by pointer identity instead of by the comparer
PointerLess(p1, p2) == p1.order < p2.order

completion_entry_set_comparer(p1, p2) ==
    IF p1.cmd_is_path # p2.cmd_is_path
    THEN (~p1.cmd_is_path) /\ p2.cmd_is_path
    ELSE StrLess(p1.cmd, p2.cmd)

Equivalent(p1, p2) ==
    /\ ~completion_entry_set_comparer(p1, p2)
    /\ ~completion_entry_set_comparer(p2, p1)

\* std::set::find: index of the element equivalent to e, 0 for end()
SetFind(set, e) ==
    IF \E i \in 1..Len(set) : Equivalent(set[i], e)
    THEN CHOOSE i \in 1..Len(set) : Equivalent(set[i], e)
    ELSE 0

\* std::set::insert: no effect when an equivalent element is present
SetInsert(set, e) ==
    IF SetFind(set, e) # 0 THEN set
    ELSE LET n == Cardinality({i \in 1..Len(set) :
                                 completion_entry_set_comparer(set[i], e)})
         IN SubSeq(set, 1, n) \o <<e>> \o SubSeq(set, n + 1, Len(set))

\* the temporary entry costs one order stamp
complete_find_exact_entry(set, k, cmd, cmd_is_path) ==
    [idx |-> SetFind(set, NewEntry(cmd, cmd_is_path, k)),
     k |-> k + 1]

complete_get_exact_entry(set, k, cmd, cmd_is_path) ==
    LET f == complete_find_exact_entry(set, k, cmd, cmd_is_path)
        c == NewEntry(cmd, cmd_is_path, f.k)
        s == SetInsert(set, c)
    IN IF f.idx # 0
       THEN [set |-> set, idx |-> f.idx, k |-> f.k]
       ELSE [set |-> s, idx |-> SetFind(s, c), k |-> c.order]

(***************************************************************************)
(* complete_add                                                            *)
(***************************************************************************)
\* what complete_add appends to short_opt_str
ShortOptSuffix(short_opt, result_mode) ==
    IF short_opt = NUL THEN <<>>
    ELSE IF HasBit(result_mode, NO_COMMON) THEN <<short_opt, ":">>
    ELSE <<short_opt>>

add_option(c, opt) == [c EXCEPT !.options = <<opt>> \o c.options]

\* a is the argument record of the call; the result is the new store and counter
complete_add(set, k, a) ==
    LET g == complete_get_exact_entry(set, k, a.cmd, a.cmd_is_path)
        c == g.set[g.idx]
        opt == [short_opt |-> a.short_opt,
                long_opt |-> StrOrEmpty(a.long_opt),
                comp |-> StrOrEmpty(a.comp),
                desc |-> StrOrEmpty(a.desc),
                condition |-> StrOrEmpty(a.condition),
                result_mode |-> a.result_mode,
                old_mode |-> a.old_mode,
                flags |-> a.flags]
        c1 == [c EXCEPT !.short_opt_str =
                   c.short_opt_str \o ShortOptSuffix(a.short_opt, a.result_mode)]
    IN [set |-> [g.set EXCEPT ![g.idx] = add_option(c1, opt)], k |-> g.k]

complete_set_authoritative(set, k, a) ==
    LET g == complete_get_exact_entry(set, k, a.cmd, a.cmd_is_path)
    IN [set |-> [g.set EXCEPT ![g.idx].authoritative = a.authoritative],
        k |-> g.k]

(***************************************************************************)
(* complete_remove                                                         *)
(***************************************************************************)
RECURSIVE ColonRun(_, _)
\* the number of ':' in s from index i on ("consume all colons")
ColonRun(s, i) ==
    IF i <= Len(s) /\ s[i] = ":" THEN 1 + ColonRun(s, i + 1) ELSE 0

\* erase the first occurrence of the letter and the colons that follow it
EraseShortOpt(short_opt_str, c) ==
    LET idx == StrFind(short_opt_str, c)
    IN IF idx = 0 THEN short_opt_str
       ELSE StrErase(short_opt_str, idx, 1 + ColonRun(short_opt_str, idx + 1))

\* `short_opt==o.short_opt || long_opt == o.long_opt': comparing a null
\* long_opt with a wcstring is undefined; nulleq is what it then yields
OptionMatches(o, short_opt, long_opt, nulleq) ==
    \/ short_opt = o.short_opt
    \/ IF long_opt = NULL THEN nulleq ELSE long_opt = o.long_opt

RECURSIVE RemoveLoop(_, _, _, _, _)
\* the loop of remove_option over the options from the head on:
\* [options, short_opt_str] that remain
RemoveLoop(opts, sos, short_opt, long_opt, nulleq) ==
    IF opts = <<>> THEN [options |-> <<>>, short_opt_str |-> sos]
    ELSE LET o == Head(opts)
             hit == OptionMatches(o, short_opt, long_opt, nulleq)
             sos1 == IF hit /\ o.short_opt # NUL
                     THEN EraseShortOpt(sos, o.short_opt) ELSE sos
             rest == RemoveLoop(Tail(opts), sos1, short_opt, long_opt, nulleq)
         IN IF hit THEN rest
            ELSE [rest EXCEPT !.options = <<o>> \o rest.options]

\* the entry after remove_option; it returns options.empty()
remove_option(c, short_opt, long_opt, nulleq) ==
    IF short_opt = NUL /\ long_opt = NULL
    THEN [c EXCEPT !.options = <<>>]
    ELSE LET r == RemoveLoop(c.options, c.short_opt_str, short_opt, long_opt,
                             nulleq)
         IN [c EXCEPT !.options = r.options, !.short_opt_str = r.short_opt_str]

\* remove_option dereferences the null long_opt: some option's short letter
\* differs, so the right operand of || is evaluated
RemoveIsUndefined(c, short_opt, long_opt) ==
    /\ long_opt = NULL
    /\ short_opt # NUL
    /\ \E i \in 1..Len(c.options) : c.options[i].short_opt # short_opt

\* keeps the entry when its option list became empty
complete_remove_keep_empty(set, k, a, nulleq) ==
    LET f == complete_find_exact_entry(set, k, a.cmd, a.cmd_is_path)
    IN IF f.idx = 0 THEN [set |-> set, k |-> f.k]
       ELSE [set |-> [set EXCEPT ![f.idx] =
                        remove_option(set[f.idx], a.short_opt, a.long_opt, nulleq)],
             k |-> f.k]

complete_remove(set, k, a, nulleq) ==
    LET f == complete_find_exact_entry(set, k, a.cmd, a.cmd_is_path)
        e == remove_option(set[f.idx], a.short_opt, a.long_opt, nulleq)
    IN IF f.idx = 0 THEN [set |-> set, k |-> f.k]
       ELSE IF e.options = <<>>
            THEN [set |-> SubSeq(set, 1, f.idx - 1)
                          \o SubSeq(set, f.idx + 1, Len(set)),
                  k |-> f.k]
       ELSE [set |-> [set EXCEPT ![f.idx] = e], k |-> f.k]

(***************************************************************************)
(* The store operations as threads run them                                *)
(***************************************************************************)
CmdLs == <<"l", "s">>
PathLs == <<"/", "l", "s">>
CmdC == <<"c">>

\* the (cmd, cmd_is_path) keys the calls name
StoreKeys ==
    {[cmd |-> CmdLs, cmd_is_path |-> FALSE],
     [cmd |-> PathLs, cmd_is_path |-> TRUE],
     [cmd |-> CmdC, cmd_is_path |-> FALSE]}

StoreShortOpts == {NUL, "a"}
StoreLongOpts == {NULL, <<"x">>}
StoreModes == {0, NO_COMMON}

NoCall == [op |-> "none"]
NoBefore == [found |-> FALSE]

AddCalls ==
    {[op |-> "add", cmd |-> key.cmd, cmd_is_path |-> key.cmd_is_path,
      short_opt |-> s, long_opt |-> l, old_mode |-> FALSE, result_mode |-> m,
      condition |-> NULL, comp |-> NULL, desc |-> NULL, flags |-> {}] :
        key \in StoreKeys, s \in StoreShortOpts, l \in StoreLongOpts,
        m \in StoreModes}

RemoveCalls ==
    {[op |-> "remove", cmd |-> key.cmd, cmd_is_path |-> key.cmd_is_path,
      short_opt |-> s, long_opt |-> l] :
        key \in StoreKeys, s \in StoreShortOpts, l \in StoreLongOpts}

AuthoritativeCalls ==
    {[op |-> "set_authoritative", cmd |-> key.cmd,
      cmd_is_path |-> key.cmd_is_path, authoritative |-> b] :
        key \in StoreKeys, b \in BOOLEAN}

NoCompleter == [live |-> FALSE]
NoDriver == [pc |-> "idle"]
NoValid == [called |-> FALSE]
NoSnap == [taken |-> FALSE]

\* the sessions of the autoload model: the request served on the main thread
\* and the autosuggestions of two worker threads
Sessions == {"main", "worker1", "worker2"}
NoSession == [pc |-> "idle"]
\* nothing tried, nothing queued for the main thread, nothing loaded
NoLoader == [tried |-> {}, queue |-> <<>>, loads |-> <<>>]
NoMatcher == [pc |-> "idle"]
NoProbe == [fn |-> "none"]

Init ==
    /\ phase = "store"
    /\ out = <<>>
    /\ replayed = <<>>
    /\ completer = NoCompleter
    /\ driver = NoDriver
    /\ subshells = <<>>
    /\ valid = NoValid
    /\ built = <<>>
    /\ snap = [t \in Threads |-> NoSnap]
    /\ loader = NoLoader
    /\ sess = [w \in Sessions |-> NoSession]
    /\ matcher = NoMatcher
    /\ probe = NoProbe
    /\ completion_set = <<>>
    /\ kCompleteOrder = 0
    /\ completion_lock = 0
    /\ completion_entry_lock = 0
    /\ pc = [t \in Threads |-> "idle"]
    /\ call = [t \in Threads |-> NoCall]
    /\ before = [t \in Threads |-> NoBefore]
    /\ crashed = FALSE

\* the two locks taken the other way round
EnterEntryLockFirst(t, a, next) ==
    /\ ~crashed
    /\ pc[t] = "idle"
    /\ a.cmd # NULL
    /\ completion_entry_lock = 0
    /\ completion_entry_lock' = t
    /\ pc' = [pc EXCEPT ![t] = next]
    /\ call' = [call EXCEPT ![t] = a]
    /\ UNCHANGED <<autoloadVars, matchVars, candidateVars, paramVars, completion_set, kCompleteOrder,
                   completion_lock, before, crashed, printVars, sessionVars,
                   valid>>

\* a thread enters an operation: CHECK(cmd,), then scoped_lock lock(completion_lock)
Enter(t, a, next) ==
    /\ ~crashed
    /\ pc[t] = "idle"
    /\ a.cmd # NULL
    /\ completion_lock = 0
    /\ completion_lock' = t
    /\ pc' = [pc EXCEPT ![t] = next]
    /\ call' = [call EXCEPT ![t] = a]
    /\ UNCHANGED <<autoloadVars, matchVars, candidateVars, paramVars, completion_set, kCompleteOrder, completion_entry_lock, before,
                   crashed,
                   printVars, sessionVars, valid>>

\* the operation going on without completion_entry_lock
LockEntriesSkipped(t, at, next) ==
    /\ ~crashed
    /\ pc[t] = at
    /\ pc' = [pc EXCEPT ![t] = next]
    /\ UNCHANGED <<autoloadVars, matchVars, candidateVars, paramVars, completion_set, kCompleteOrder,
                   completion_lock, completion_entry_lock, call, before,
                   crashed, printVars, sessionVars, valid>>

\* scoped_lock lock2(completion_entry_lock)
LockEntries(t, at, next) ==
    /\ ~crashed
    /\ pc[t] = at
    /\ completion_entry_lock = 0
    /\ completion_entry_lock' = t
    /\ pc' = [pc EXCEPT ![t] = next]
    /\ UNCHANGED <<autoloadVars, matchVars, candidateVars, paramVars, completion_set, kCompleteOrder, completion_lock, call, before,
                   crashed,
                   printVars, sessionVars, valid>>

AddEnter(t) ==
    \E a \in AddCalls :
        /\ kCompleteOrder + 2 <= MaxOrder
        /\ Enter(t, a, "add_lock2")

AddLock2(t) == LockEntries(t, "add_lock2", "add_body")

AddBody(t) ==
    /\ ~crashed
    /\ pc[t] = "add_body"
    /\ LET r == complete_add(completion_set, kCompleteOrder, call[t])
       IN /\ completion_set' = r.set
          /\ kCompleteOrder' = r.k
    /\ pc' = [pc EXCEPT ![t] = "unlock2"]
    /\ UNCHANGED <<autoloadVars, matchVars, candidateVars, paramVars, completion_lock, completion_entry_lock, call, before, crashed,
                   printVars, sessionVars, valid>>

SetAuthoritativeEnter(t) ==
    \E a \in AuthoritativeCalls :
        /\ kCompleteOrder + 2 <= MaxOrder
        /\ Enter(t, a, "auth_body")

\* complete_set_authoritative takes completion_lock only
SetAuthoritativeBody(t) ==
    /\ ~crashed
    /\ pc[t] = "auth_body"
    /\ LET r == complete_set_authoritative(completion_set, kCompleteOrder, call[t])
       IN /\ completion_set' = r.set
          /\ kCompleteOrder' = r.k
    /\ pc' = [pc EXCEPT ![t] = "unlock1"]
    /\ UNCHANGED <<autoloadVars, matchVars, candidateVars, paramVars, completion_lock, completion_entry_lock, call, before, crashed,
                   printVars, sessionVars, valid>>

RemoveEnter(t) ==
    \E a \in RemoveCalls :
        /\ kCompleteOrder + 1 <= MaxOrder
        /\ Enter(t, a, "remove_lock2")

RemoveLock2(t) == LockEntries(t, "remove_lock2", "remove_body")

\* the entry the call names, as complete_remove finds it
RemoveTarget(t) ==
    LET idx == complete_find_exact_entry(completion_set, kCompleteOrder,
                                         call[t].cmd, call[t].cmd_is_path).idx
    IN IF idx = 0 THEN NoBefore
       ELSE [found |-> TRUE, entry |-> completion_set[idx]]

RemoveUndefinedNow(t) ==
    /\ RemoveTarget(t).found
    /\ RemoveIsUndefined(RemoveTarget(t).entry, call[t].short_opt,
                         call[t].long_opt)

RemoveApply(t, nulleq) ==
    /\ LET r == complete_remove(completion_set, kCompleteOrder, call[t], nulleq)
       IN /\ completion_set' = r.set
          /\ kCompleteOrder' = r.k
    /\ before' = [before EXCEPT ![t] = RemoveTarget(t)]
    /\ pc' = [pc EXCEPT ![t] = "unlock2"]
    /\ UNCHANGED <<autoloadVars, matchVars, candidateVars, paramVars, completion_lock, completion_entry_lock, call, crashed,
                   printVars, sessionVars, valid>>

\* no null pointer is compared: the call is defined
RemoveBody(t) ==
    /\ ~crashed
    /\ pc[t] = "remove_body"
    /\ ~RemoveUndefinedNow(t)
    /\ RemoveApply(t, FALSE)

\* the null long_opt is compared with a wcstring: the comparison yields
\* either truth value ...
RemoveBodyUndefined(t) ==
    /\ ~crashed
    /\ pc[t] = "remove_body"
    /\ RemoveUndefinedNow(t)
    /\ \E nulleq \in BOOLEAN : RemoveApply(t, nulleq)

\* ... or the process dies in wcslen(NULL)
RemoveBodyCrash(t) ==
    /\ ~crashed
    /\ pc[t] = "remove_body"
    /\ RemoveUndefinedNow(t)
    /\ crashed' = TRUE
    /\ UNCHANGED <<autoloadVars, matchVars, candidateVars, paramVars, completion_set, kCompleteOrder, completion_lock,
                   completion_entry_lock, pc, call, before,
                   printVars, sessionVars, valid>>

\* ~scoped_lock of lock2
Unlock2(t) ==
    /\ ~crashed
    /\ pc[t] = "unlock2"
    /\ completion_entry_lock' = 0
    /\ pc' = [pc EXCEPT ![t] = "unlock1"]
    /\ UNCHANGED <<autoloadVars, matchVars, candidateVars, paramVars, completion_set, kCompleteOrder, completion_lock, call, before,
                   crashed,
                   printVars, sessionVars, valid>>

\* ~scoped_lock of lock: the operation has returned
Unlock1(t) ==
    /\ ~crashed
    /\ pc[t] = "unlock1"
    /\ completion_lock' = 0
    /\ pc' = [pc EXCEPT ![t] = "idle"]
    /\ call' = [call EXCEPT ![t] = NoCall]
    /\ before' = [before EXCEPT ![t] = NoBefore]
    /\ UNCHANGED <<autoloadVars, matchVars, candidateVars, paramVars, completion_set, kCompleteOrder, completion_entry_lock, crashed,
                   printVars, sessionVars, valid>>

Next ==
    \E t \in Threads :
        \/ AddEnter(t)
        \/ AddLock2(t)
        \/ AddBody(t)
        \/ SetAuthoritativeEnter(t)
        \/ SetAuthoritativeBody(t)
        \/ RemoveEnter(t)
        \/ RemoveLock2(t)
        \/ RemoveBody(t)
        \/ RemoveBodyUndefined(t)
        \/ RemoveBodyCrash(t)
        \/ Unlock2(t)
        \/ Unlock1(t)

Spec == Init /\ [][Next]_vars

(***************************************************************************)
(* Claims about the store                                                  *)
(***************************************************************************)
SameKey(p1, p2) == p1.cmd = p2.cmd /\ p1.cmd_is_path = p2.cmd_is_path

\* the index in the store of the entry under the key of thread t's call, 0 if none
CallEntryIdx(t) ==
    IF \E i \in 1..Len(completion_set) : SameKey(completion_set[i], call[t])
    THEN CHOOSE i \in 1..Len(completion_set) : SameKey(completion_set[i], call[t])
    ELSE 0

\* thread t has run the body of operation op and has not returned yet
Ran(t, op) == pc[t] \in {"unlock2", "unlock1"} /\ call[t].op = op

\* C1: in every state, whatever the threads have done so far, no two schemas
\* of the store have the same (cmd_is_path, cmd) key.
C1_StoreUniqueness ==
    \A i, j \in 1..Len(completion_set) :
        SameKey(completion_set[i], completion_set[j]) => i = j

\* a thread has run complete_add or complete_set_authoritative on a key that
\* was already in the store (the schema is older than the call's own stamps)
C1_Witness ==
    \E t \in Threads :
        /\ Ran(t, "add") \/ Ran(t, "set_authoritative")
        /\ CallEntryIdx(t) # 0
        /\ completion_set[CallEntryIdx(t)].order < kCompleteOrder

RECURSIVE ShortOptsOf(_)
\* the short_opt_str the options stand for: the list holds the newest first,
\* so the oldest option's letter comes first
ShortOptsOf(opts) ==
    IF opts = <<>> THEN <<>>
    ELSE ShortOptsOf(Tail(opts))
         \o ShortOptSuffix(Head(opts).short_opt, Head(opts).result_mode)

\* C2: in every state (operations change the store in one step under both
\* locks), every schema's short_opt_str is the concatenation, in the order the
\* options were added, of short_opt and ':' if NO_COMMON, over the options
\* still present that have a short letter.
C2_ShortOptStrCoherent ==
    \A i \in 1..Len(completion_set) :
        completion_set[i].short_opt_str = ShortOptsOf(completion_set[i].options)

\* the options of the entry under the call's key, <<>> when there is none
CallOptions(t) ==
    IF CallEntryIdx(t) = 0 THEN <<>>
    ELSE completion_set[CallEntryIdx(t)].options

\* o matches an identifier complete_remove was given
MatchesGiven(o, a) ==
    \/ a.short_opt # NUL /\ o.short_opt = a.short_opt
    \/ a.long_opt # NULL /\ o.long_opt = a.long_opt

KeepUnmatched(opts, a) ==
    LET Stays(o) == ~MatchesGiven(o, a) IN SelectSeq(opts, Stays)

\* C3: when complete_remove with at least one identifier has run on a schema,
\* the options left are exactly those that matched neither given identifier,
\* in their original order.
C3_RemoveExactlyMatching ==
    \A t \in Threads :
        ( /\ Ran(t, "remove")
          /\ before[t].found
          /\ ~(call[t].short_opt = NUL /\ call[t].long_opt = NULL) )
        => CallOptions(t) = KeepUnmatched(before[t].entry.options, call[t])

\* C4: when complete_remove has run, the schema under its key is absent or
\* has options; with both identifiers absent it is absent.
C4_RemoveLeavesNoEmptySchema ==
    \A t \in Threads :
        Ran(t, "remove") =>
            /\ CallEntryIdx(t) = 0 \/ CallOptions(t) # <<>>
            /\ (call[t].short_opt = NUL /\ call[t].long_opt = NULL)
               => CallEntryIdx(t) = 0

\* complete_remove(cmd, path, 0, 0) has run on an authoritative schema, and
\* another call with an identifier has emptied a schema
C4_Witness ==
    \E t \in Threads :
        /\ Ran(t, "remove")
        /\ before[t].found
        /\ before[t].entry.authoritative
        /\ call[t].short_opt = NUL /\ call[t].long_opt = NULL

(***************************************************************************)
(* complete_print, and the replay of its output                            *)
(***************************************************************************)
\* escape_string(argument, 1) and the shell's reading of the quoted word
escape_string(str) == [quoted |-> str]
unescape_word(word) == word.quoted

modestr == <<"", " --no-files", " --require-parameter", " --exclusive">>

\* a line is the sequence of its words: [switch, arg]
append_switch(line, opt, argument) ==
    IF argument = <<>> THEN line
    ELSE Append(line, [switch |-> opt, arg |-> escape_string(argument)])

\* C_(o->desc): the translation macro, the identity without USE_GETTEXT
C_(str) == str

\* the line complete_print emits for option o of entry e
PrintLine(e, o) ==
    LET l0 == <<[switch |-> "complete", arg |-> modestr[o.result_mode + 1]]>>
        l1 == append_switch(l0, IF e.cmd_is_path THEN "path" ELSE "command", e.cmd)
        l2 == IF o.short_opt # NUL
              THEN Append(l1, [switch |-> "short-option",
                               arg |-> <<"'", o.short_opt, "'">>])
              ELSE l1
        l3 == append_switch(l2, IF o.old_mode THEN "old-option" ELSE "long-option",
                            o.long_opt)
        l4 == append_switch(l3, "description", C_(o.desc))
        l5 == append_switch(l4, "arguments", o.comp)
    IN append_switch(l5, "condition", o.condition)

RECURSIVE SortByOrder(_)
\* sort(all_completions, compare_completions_by_order), on a set of entries
SortByOrder(entries) ==
    IF entries = {} THEN <<>>
    ELSE LET first == CHOOSE e \in entries : \A f \in entries : e.order <= f.order
         IN <<first>> \o SortByOrder(entries \ {first})

RECURSIVE PrintEntries(_)
PrintEntries(sorted) ==
    IF sorted = <<>> THEN <<>>
    ELSE LET e == Head(sorted)
         IN [i \in 1..Len(e.options) |-> PrintLine(e, e.options[i])]
            \o PrintEntries(Tail(sorted))

\* the lines appended to out, in order
complete_print(set) ==
    PrintEntries(SortByOrder({set[i] : i \in 1..Len(set)}))

HasSwitch(line, sw) == \E i \in 1..Len(line) : line[i].switch = sw

\* the word given to switch sw, NULL when the line does not name it
WordOf(line, sw) ==
    IF HasSwitch(line, sw)
    THEN unescape_word(line[CHOOSE i \in 1..Len(line) : line[i].switch = sw].arg)
    ELSE NULL

\* the complete_add call a line stands for: the fields it names, and nothing
\* (null, 0, no flag) for those it does not
LineCall(line) ==
    [op |-> "add",
     cmd |-> IF HasSwitch(line, "path") THEN WordOf(line, "path")
             ELSE WordOf(line, "command"),
     cmd_is_path |-> HasSwitch(line, "path"),
     short_opt |-> IF HasSwitch(line, "short-option")
                   THEN line[CHOOSE i \in 1..Len(line) :
                                line[i].switch = "short-option"].arg[2]
                   ELSE NUL,
     long_opt |-> IF HasSwitch(line, "old-option") THEN WordOf(line, "old-option")
                  ELSE WordOf(line, "long-option"),
     old_mode |-> HasSwitch(line, "old-option"),
     result_mode |-> CHOOSE m \in 0..3 : modestr[m + 1] = line[1].arg,
     condition |-> WordOf(line, "condition"),
     comp |-> WordOf(line, "arguments"),
     desc |-> WordOf(line, "description"),
     flags |-> {}]

RECURSIVE ReplayLines(_, _, _)
\* one complete_add per line, from the first line on; CHECK(cmd,) drops a
\* call without a command
ReplayLines(lines, set, k) ==
    IF lines = <<>> THEN set
    ELSE LET a == LineCall(Head(lines))
             r == IF a.cmd = NULL THEN [set |-> set, k |-> k]
                  ELSE complete_add(set, k, a)
         IN ReplayLines(Tail(lines), r.set, r.k)

(***************************************************************************)
(* The store operations of one caller, each run from call to return        *)
(* (both locks are taken and released inside the step)                     *)
(***************************************************************************)
SerialAdd(calls, cap) ==
    \E a \in calls :
        /\ phase = "store"
        /\ a.cmd # NULL
        /\ kCompleteOrder + 2 <= cap
        /\ LET r == complete_add(completion_set, kCompleteOrder, a)
           IN /\ completion_set' = r.set
              /\ kCompleteOrder' = r.k
        /\ UNCHANGED <<autoloadVars, matchVars, candidateVars, paramVars, threadVars, printVars, sessionVars, valid>>

SerialSetAuthoritative(calls, cap) ==
    \E a \in calls :
        /\ phase = "store"
        /\ a.cmd # NULL
        /\ kCompleteOrder + 2 <= cap
        /\ LET r == complete_set_authoritative(completion_set, kCompleteOrder, a)
           IN /\ completion_set' = r.set
              /\ kCompleteOrder' = r.k
        /\ UNCHANGED <<autoloadVars, matchVars, candidateVars, paramVars, threadVars, printVars, sessionVars, valid>>

\* the calls are such that no null long_opt is compared
SerialRemove(calls, cap) ==
    \E a \in calls :
        /\ phase = "store"
        /\ a.cmd # NULL
        /\ kCompleteOrder + 1 <= cap
        /\ LET r == complete_remove(completion_set, kCompleteOrder, a, FALSE)
           IN /\ completion_set' = r.set
              /\ kCompleteOrder' = r.k
        /\ UNCHANGED <<autoloadVars, matchVars, candidateVars, paramVars, threadVars, printVars, sessionVars, valid>>

(***************************************************************************)
(* Printing a store and replaying the output                               *)
(***************************************************************************)
MaxPrintOrder == 4

PrintKeys ==
    {[cmd |-> CmdLs, cmd_is_path |-> FALSE],
     [cmd |-> PathLs, cmd_is_path |-> TRUE]}

AddCall(key, s, l, old, m, cond, comp, desc, f) ==
    [op |-> "add", cmd |-> key.cmd, cmd_is_path |-> key.cmd_is_path,
     short_opt |-> s, long_opt |-> l, old_mode |-> old, result_mode |-> m,
     condition |-> cond, comp |-> comp, desc |-> desc, flags |-> f]

\* every field takes each of its kinds of value in some call
PrintAddCalls ==
    UNION {
        {AddCall(key, s, NULL, FALSE, 0, NULL, NULL, NULL, {}),
         AddCall(key, s, <<"x">>, FALSE, 0, NULL, NULL, NULL, {}),
         AddCall(key, s, <<"x">>, TRUE, 0, NULL, NULL, NULL, {})} \cup
        {AddCall(key, s, <<"x">>, FALSE, m, NULL, NULL, NULL, {}) : m \in 1..3} \cup
        {AddCall(key, s, NULL, FALSE, 0, <<"c">>, NULL, NULL, {}),
         AddCall(key, s, NULL, FALSE, 0, NULL, <<"a">>, NULL, {}),
         AddCall(key, s, NULL, FALSE, 0, NULL, NULL, <<"b">>, {}),
         AddCall(key, s, NULL, FALSE, 0, NULL, NULL, NULL, {"NO_SPACE"})}
        : key \in PrintKeys, s \in {NUL, "a"}}

PrintAuthoritativeCalls ==
    {[op |-> "set_authoritative", cmd |-> key.cmd,
      cmd_is_path |-> key.cmd_is_path, authoritative |-> b] :
        key \in PrintKeys, b \in BOOLEAN}

PrintRemoveCalls ==
    {[op |-> "remove", cmd |-> key.cmd, cmd_is_path |-> key.cmd_is_path,
      short_opt |-> NUL, long_opt |-> l] :
        key \in PrintKeys, l \in {NULL, <<"x">>}}

PrintAdd == SerialAdd(PrintAddCalls, MaxPrintOrder)
PrintSetAuthoritative == SerialSetAuthoritative(PrintAuthoritativeCalls, MaxPrintOrder)
PrintRemove == SerialRemove(PrintRemoveCalls, MaxPrintOrder)

CompletePrint ==
    /\ phase = "store"
    /\ out' = complete_print(completion_set)
    /\ phase' = "printed"
    /\ UNCHANGED <<autoloadVars, matchVars, candidateVars, paramVars, storeVars, threadVars, replayed, sessionVars, valid>>

\* the output is fed, line by line, to an empty store
Replay ==
    /\ phase = "printed"
    /\ replayed' = ReplayLines(out, <<>>, 0)
    /\ phase' = "replayed"
    /\ UNCHANGED <<autoloadVars, matchVars, candidateVars, paramVars, storeVars, threadVars, out, sessionVars, valid>>

NextPrint ==
    \/ PrintAdd
    \/ PrintSetAuthoritative
    \/ PrintRemove
    \/ CompletePrint
    \/ Replay

SpecPrint == Init /\ [][NextPrint]_vars

Range(seq) == {seq[i] : i \in 1..Len(seq)}

Count(seq, x) == Cardinality({i \in 1..Len(seq) : seq[i] = x})

SameMultiset(a, b) ==
    \A x \in Range(a) \cup Range(b) : Count(a, x) = Count(b, x)

\* C5: once the output of complete_print has been replayed into an empty
\* store, every schema of the printed store has a schema under its key in the
\* replayed store whose options are the same multiset, compared on all fields.
C5_RoundTripOptions ==
    phase = "replayed" =>
        \A i \in 1..Len(completion_set) :
            \E j \in 1..Len(replayed) :
                /\ SameKey(completion_set[i], replayed[j])
                /\ SameMultiset(completion_set[i].options, replayed[j].options)

\* C6: the replayed store has the keys of the printed store, each with the
\* authoritative flag it had.
C6_RoundTripStore ==
    phase = "replayed" =>
        /\ \A i \in 1..Len(completion_set) :
               \E j \in 1..Len(replayed) :
                   /\ SameKey(completion_set[i], replayed[j])
                   /\ completion_set[i].authoritative = replayed[j].authoritative
        /\ \A j \in 1..Len(replayed) :
               \E i \in 1..Len(completion_set) :
                   SameKey(completion_set[i], replayed[j])

(***************************************************************************)
(* completer_t: one completion request                                     *)
(***************************************************************************)
RequestFlags == {"DESCRIPTIONS", "FUZZY_MATCH", "AUTOSUGGESTION"}

\* completer_t::type()
CompleterType(c) ==
    IF "AUTOSUGGESTION" \in c.flags THEN "COMPLETE_AUTOSUGGEST"
    ELSE "COMPLETE_DEFAULT"

wants_descriptions(c) == "DESCRIPTIONS" \in c.flags

\* completer_t(c, f): no completion, an empty condition cache; tests records
\* the condition_test calls made on it, in order: [condition, res]
NewCompleter(f) ==
    [live |-> TRUE, flags |-> f, completions |-> <<>>,
     condition_cache |-> [src \in {} |-> TRUE],
     tests |-> <<>>]

\* the exit statuses exec_subshell hands back (-1: it could not run)
ExitStatuses == {0, 1, -1}

\* condition_test that looks the condition up but never stores the result
condition_test_no_store(c, condition, status) ==
    IF condition = <<>> THEN [c |-> c, res |-> TRUE, exec |-> FALSE]
    ELSE IF CompleterType(c) = "COMPLETE_AUTOSUGGEST"
    THEN [c |-> c, res |-> FALSE, exec |-> FALSE]
    ELSE IF condition \in DOMAIN c.condition_cache
    THEN [c |-> c, res |-> c.condition_cache[condition], exec |-> FALSE]
    ELSE [c |-> c, res |-> (status = 0), exec |-> TRUE]

\* condition_test without the test for autosuggestion
condition_test_any_mode(c, condition, status) ==
    IF condition = <<>> THEN [c |-> c, res |-> TRUE, exec |-> FALSE]
    ELSE IF condition \in DOMAIN c.condition_cache
    THEN [c |-> c, res |-> c.condition_cache[condition], exec |-> FALSE]
    ELSE [c |-> [c EXCEPT !.condition_cache =
                    (condition :> (status = 0)) @@ c.condition_cache],
          res |-> (status = 0), exec |-> TRUE]

\* status is what exec_subshell returns if the condition is run; the result
\* is the completer after the call, the value returned, and whether it ran
condition_test(c, condition, status) ==
    IF condition = <<>> THEN [c |-> c, res |-> TRUE, exec |-> FALSE]
    ELSE IF CompleterType(c) = "COMPLETE_AUTOSUGGEST"
    THEN [c |-> c, res |-> FALSE, exec |-> FALSE]
    ELSE IF condition \in DOMAIN c.condition_cache
    THEN [c |-> c, res |-> c.condition_cache[condition], exec |-> FALSE]
    ELSE [c |-> [c EXCEPT !.condition_cache =
                    (condition :> (status = 0)) @@ c.condition_cache],
          res |-> (status = 0), exec |-> TRUE]

(***************************************************************************)
(* complete_cmd and complete_cmd_desc                                      *)
(***************************************************************************)
TAB == "TAB"

\* towupper, on the letters descriptions start with here
towupper(ch) == IF ch = "x" THEN "X" ELSE ch

StrHas(str, ch) == \E i \in 1..Len(str) : str[i] = ch

\* the part of str after its last '/', all of it when it has none (wcsrchr)
AfterLastSlash(str) ==
    IF StrHas(str, "/")
    THEN SubSeq(str, 1 + (CHOOSE i \in 1..Len(str) :
                              str[i] = "/" /\ \A j \in (i + 1)..Len(str) : str[j] # "/"),
                Len(str))
    ELSE str

\* wildcard_has(str, 0): an unescaped wildcard character
wildcard_has(str) == StrHas(str, "*") \/ StrHas(str, "?")

Candidate(text, desc, f) == [completion |-> text, description |-> desc, flags |-> f]

\* every completion so far ends with '/': nothing to describe
AllDirectories(completions) ==
    \A i \in 1..Len(completions) :
        /\ completions[i].completion # <<>>
        /\ completions[i].completion[Len(completions[i].completion)] = "/"

\* one line of the helper's output, cut after the typed prefix: [key, val],
\* or no entry when it has no tab
DescLine(elstr, prefix_len) ==
    LET fullkey == SubSeq(elstr, prefix_len + 1, Len(elstr))
        tab_idx == StrFind(fullkey, TAB)
        val == SubSeq(fullkey, tab_idx + 1, Len(fullkey))
    IN IF tab_idx = 0 THEN [has |-> FALSE]
       ELSE [has |-> TRUE, key |-> SubSeq(fullkey, 1, tab_idx - 1),
             val |-> IF val = <<>> THEN val
                     ELSE <<towupper(val[1])>> \o Tail(val)]

\* lookup[key] after all lines: the last line with that key wins
Lookup(list, prefix_len, key) ==
    LET hits == {i \in 1..Len(list) :
                    /\ DescLine(list[i], prefix_len).has
                    /\ DescLine(list[i], prefix_len).key = key}
    IN IF hits = {} THEN [has |-> FALSE]
       ELSE DescLine(list[CHOOSE i \in hits : \A j \in hits : j <= i], prefix_len)

\* outcome is what the description helper does if it is run: [status, list];
\* the result is the completer afterwards and whether the subshell ran
complete_cmd_desc(c, str, outcome) ==
    LET cmd_start == AfterLastSlash(str)
        Described(cand) ==
            LET hit == Lookup(outcome.list, Len(cmd_start), cand.completion)
            IN IF cand.completion # <<>> /\ hit.has
               THEN [cand EXCEPT !.description = hit.val]
               ELSE cand
    IN IF \/ Len(cmd_start) < 2
          \/ wildcard_has(cmd_start)
          \/ AllDirectories(c.completions)
       THEN [c |-> c, exec |-> FALSE]
       ELSE IF outcome.status = -1 THEN [c |-> c, exec |-> TRUE]
       ELSE [c |-> [c EXCEPT !.completions =
                       [i \in 1..Len(c.completions) |-> Described(c.completions[i])]],
             exec |-> TRUE]

(***************************************************************************)
(* complete(): the driver                                                  *)
(***************************************************************************)
\* at most this many condition_test calls are followed in one request
MaxTests == 3

\* the token under the cursor
Tokens ==
    {<<>>, <<"l">>, <<"l", "s">>, <<"l", "*">>, <<"/", "l", "s">>,
     <<"~", "l", "s">>, <<"$", "l">>}

ConditionSources == {<<>>, <<"c">>, <<"x">>}

Decorations == {"none", "command", "exec", "builtin"}

\* what expand_string does to the completion list: an error, or candidates
ExpandOutcomes ==
    {[err |-> TRUE, new |-> <<>>],
     [err |-> FALSE, new |-> <<>>],
     [err |-> FALSE, new |-> <<Candidate(<<"b">>, <<>>, {})>>],
     [err |-> FALSE, new |-> <<Candidate(<<"d", "/">>, <<>>, {"NO_SPACE"})>>],
     [err |-> FALSE,
      new |-> <<Candidate(<<"/", "l", "s", "b">>, <<>>, {"REPLACES_TOKEN"})>>]}

\* what __fish_describe_command hands back
DescribeOutcomes ==
    {[status |-> -1, list |-> <<>>],
     [status |-> 0, list |-> <<>>],
     [status |-> 0, list |-> << <<"l", "s", "b", TAB, "x">> >>]}

\* completer_t::expand_flags()
expand_flags(c) ==
    (IF CompleterType(c) = "COMPLETE_AUTOSUGGEST" THEN {"EXPAND_SKIP_CMDSUBST"}
     ELSE {})
    \cup (IF "FUZZY_MATCH" \in c.flags THEN {"EXPAND_FUZZY_MATCH"} ELSE {})

\* an exec_subshell call: what ran and the status it handed back
Subshell(kind, src, status) == [kind |-> kind, src |-> src, status |-> status]

\* expand_string(str, completions, flags): candidates are appended unless it
\* fails; it runs command substitutions only without EXPAND_SKIP_CMDSUBST
Expanded(c, e) ==
    IF e.err THEN c ELSE [c EXCEPT !.completions = c.completions \o e.new]

CmdsubstLog(flags, ran, str) ==
    IF ran /\ "EXPAND_SKIP_CMDSUBST" \notin flags
    THEN <<Subshell("cmdsubst", str, 0)>> ELSE <<>>

DescribeLog(r, str, d) ==
    IF r.exec THEN <<Subshell("describe", AfterLastSlash(str), d.status)>>
    ELSE <<>>

CompleteBegin ==
    \E f \in SUBSET RequestFlags, tok \in Tokens :
        /\ driver.pc = "idle"
        /\ completer' = NewCompleter(f)
        /\ driver' = [pc |-> "variable", token |-> tok]
        /\ subshells' = <<>>
        /\ UNCHANGED <<autoloadVars, matchVars, candidateVars, paramVars, storeVars, threadVars, printVars, valid>>

\* the driver going on to user completion whatever variable completion found
TryCompleteVariableGoesOn ==
    \E found \in BOOLEAN :
        /\ driver.pc = "variable"
        /\ found => StrHas(driver.token, "$")
        /\ completer' =
              IF found
              THEN [completer EXCEPT !.completions =
                       Append(@, Candidate(<<"s">>, <<>>, {}))]
              ELSE completer
        /\ driver' = [driver EXCEPT !.pc = "user"]
        /\ UNCHANGED <<autoloadVars, matchVars, candidateVars, paramVars, storeVars, threadVars,
                       printVars, subshells, valid>>

\* try_complete_variable: it completes only a token with a '$'; which names
\* match is the environment's business
TryCompleteVariable ==
    \E found \in BOOLEAN :
        /\ driver.pc = "variable"
        /\ found => StrHas(driver.token, "$")
        /\ completer' =
              IF found
              THEN [completer EXCEPT !.completions =
                       Append(@, Candidate(<<"s">>, <<>>, {}))]
              ELSE completer
        /\ driver' = [driver EXCEPT !.pc = IF found THEN "done" ELSE "user"]
        /\ UNCHANGED <<autoloadVars, matchVars, candidateVars, paramVars, storeVars, threadVars, printVars, subshells, valid>>

\* try_complete_user: the password database is enumerated for a "~name"
\* token; it returns 1 when a name matched, and also when its 200 ms ran out
UserOutcomes ==
    {[res |-> FALSE, new |-> <<>>],
     [res |-> TRUE, new |-> <<Candidate(<<"x">>, <<>>, {"NO_SPACE"})>>],
     [res |-> TRUE, new |-> <<>>]}

TryCompleteUser ==
    \E u \in UserOutcomes :
        /\ driver.pc = "user"
        /\ u.res => /\ driver.token # <<>>
                    /\ driver.token[1] = "~"
                    /\ ~StrHas(driver.token, "/")
                    /\ ~StrHas(Tail(driver.token), "~")
        /\ completer' = [completer EXCEPT !.completions = @ \o u.new]
        /\ driver' = [driver EXCEPT !.pc = IF u.res THEN "done" ELSE "statement"]
        /\ UNCHANGED <<autoloadVars, matchVars, candidateVars, paramVars, storeVars, threadVars, printVars, subshells, valid>>

\* no plain statement holds the cursor: file completion only
StatementNone ==
    \E backtracked \in BOOLEAN :
        /\ driver.pc = "statement"
        /\ driver' = [pc |-> "expand", token |-> driver.token,
                      do_file |-> ~("AUTOSUGGESTION" \in completer.flags
                                    /\ backtracked)]
        /\ UNCHANGED <<autoloadVars, matchVars, candidateVars, paramVars, storeVars, threadVars, printVars, completer, subshells,
                       valid>>

\* the cursor is in or at the end of the command word
StatementCommand ==
    \E deco \in Decorations :
        /\ driver.pc = "statement"
        /\ driver' = [pc |-> "cmd_direct", token |-> driver.token,
                      use_command |-> deco \in {"none", "command", "exec"},
                      use_function |-> deco = "none",
                      use_builtin |-> deco \in {"none", "builtin"}]
        /\ UNCHANGED <<autoloadVars, matchVars, candidateVars, paramVars, storeVars, threadVars, printVars, completer, subshells,
                       valid>>

\* the cursor is in an argument (or in none): the parameter matcher runs if
\* the three strings unescape
StatementArgument ==
    /\ driver.pc = "statement"
    /\ \E unescaped \in BOOLEAN, current_argument \in {<<>>, driver.token} :
        /\ driver' = [pc |-> IF unescaped THEN "param" ELSE "param_skipped",
                      token |-> driver.token,
                      current_argument_unescape |->
                          IF unescaped THEN current_argument ELSE <<>>]
        /\ UNCHANGED <<autoloadVars, matchVars, candidateVars, paramVars, storeVars, threadVars, printVars, completer, subshells,
                       valid>>

\* complete_cmd, up to the expansion of the token itself
CompleteCmdDirect ==
    \E e \in ExpandOutcomes, ran \in BOOLEAN, d \in DescribeOutcomes :
        /\ driver.pc = "cmd_direct"
        /\ LET c1 == Expanded(completer, e)
               r == IF ~e.err /\ wants_descriptions(completer)
                    THEN complete_cmd_desc(c1, driver.token, d)
                    ELSE [c |-> c1, exec |-> FALSE]
               flags == {"ACCEPT_INCOMPLETE", "EXECUTABLES_ONLY"}
                        \cup expand_flags(completer)
           IN IF driver.token = <<>>
              THEN /\ driver' = [driver EXCEPT !.pc = "done"]
                   /\ UNCHANGED <<autoloadVars, matchVars, candidateVars, paramVars, completer, subshells>>
              ELSE IF ~driver.use_command
              THEN /\ driver' = [driver EXCEPT !.pc = "cmd_path"]
                   /\ UNCHANGED <<autoloadVars, matchVars, candidateVars, paramVars, completer, subshells>>
              ELSE /\ completer' = r.c
                   /\ subshells' = subshells
                                   \o CmdsubstLog(flags, ran, driver.token)
                                   \o DescribeLog(r, driver.token, d)
                   /\ driver' = [driver EXCEPT !.pc = "cmd_path"]
        /\ UNCHANGED <<autoloadVars, matchVars, candidateVars, paramVars, storeVars, threadVars, printVars, valid>>

BasePath == <<"/">>

\* "if COMPLETE_NO_CASE is set, then use only the last path component"
StripBasePath(cand) ==
    IF "REPLACES_TOKEN" \in cand.flags
    THEN [cand EXCEPT !.completion =
             SubSeq(@, Len(BasePath) + 1, Len(cand.completion))]
    ELSE cand

\* complete_cmd, the search of PATH (of one element here) for a token
\* without '/' and not starting with '~'
CompleteCmdPath ==
    \E path_missing \in BOOLEAN, e \in ExpandOutcomes, ran \in BOOLEAN,
       d \in DescribeOutcomes :
        /\ driver.pc = "cmd_path"
        /\ LET new == [i \in 1..Len(e.new) |-> StripBasePath(e.new[i])]
               c1 == Expanded(completer, [e EXCEPT !.new = new])
               r == IF wants_descriptions(completer)
                    THEN complete_cmd_desc(c1, driver.token, d)
                    ELSE [c |-> c1, exec |-> FALSE]
               flags == {"ACCEPT_INCOMPLETE", "EXECUTABLES_ONLY"}
                        \cup expand_flags(completer)
           IN IF StrHas(driver.token, "/") \/ driver.token[1] = "~"
              THEN /\ driver' = [driver EXCEPT !.pc = "done"]
                   /\ UNCHANGED <<autoloadVars, matchVars, candidateVars, paramVars, completer, subshells>>
              ELSE IF ~driver.use_command \/ path_missing
              THEN /\ driver' = [driver EXCEPT !.pc = "cmd_names"]
                   /\ UNCHANGED <<autoloadVars, matchVars, candidateVars, paramVars, completer, subshells>>
              ELSE /\ completer' = r.c
                   /\ subshells' = subshells
                                   \o CmdsubstLog(flags, ran, BasePath \o driver.token)
                                   \o DescribeLog(r, driver.token, d)
                   /\ driver' = [driver EXCEPT !.pc = "cmd_names"]
        /\ UNCHANGED <<autoloadVars, matchVars, candidateVars, paramVars, storeVars, threadVars, printVars, valid>>

\* complete_cmd, the function and builtin names matching the token
NameOutcomes == {<<>>, <<Candidate(<<"s">>, <<"f">>, {})>>}

CompleteCmdNames ==
    \E fn \in NameOutcomes, bi \in NameOutcomes :
        /\ driver.pc = "cmd_names"
        /\ completer' =
              [completer EXCEPT !.completions =
                  @ \o (IF driver.use_function THEN fn ELSE <<>>)
                    \o (IF driver.use_builtin THEN bi ELSE <<>>)]
        /\ driver' = [driver EXCEPT !.pc = "done"]
        /\ UNCHANGED <<autoloadVars, matchVars, candidateVars, paramVars, storeVars, threadVars, printVars, subshells, valid>>

\* complete_param tests the condition of an option it looks at
ParamConditionTest ==
    \E condition \in ConditionSources, status \in ExitStatuses :
        /\ driver.pc = "param"
        /\ Len(completer.tests) < MaxTests
        /\ LET r == condition_test(completer, condition, status)
           IN /\ completer' = [r.c EXCEPT !.tests =
                                   Append(@, [condition |-> condition,
                                              res |-> r.res])]
              /\ subshells' = IF r.exec
                              THEN Append(subshells,
                                          Subshell("condition", condition, status))
                              ELSE subshells
        /\ UNCHANGED <<autoloadVars, matchVars, candidateVars, paramVars, storeVars, threadVars, printVars, driver, valid>>

\* the empty-result rule applied after the autosuggestion rule
SettleDoFileEmptyLast(do_file, completions, flags, current_argument_unescape) ==
    LET do_file1 == IF /\ "AUTOSUGGESTION" \in flags
                       /\ current_argument_unescape = <<>>
                    THEN FALSE ELSE do_file
    IN IF completions = <<>> THEN TRUE ELSE do_file1

\* do_file as complete() settles it after complete_param
SettleDoFile(do_file, completions, flags, current_argument_unescape) ==
    LET do_file1 == IF completions = <<>> THEN TRUE ELSE do_file
    IN IF /\ "AUTOSUGGESTION" \in flags
          /\ current_argument_unescape = <<>>
       THEN FALSE ELSE do_file1

\* complete_param returns use_files, having appended what it found; then
\* complete() settles do_file
ParamReturn ==
    \E use_files \in BOOLEAN, new \in NameOutcomes :
        /\ driver.pc \in {"param", "param_skipped"}
        /\ LET ran == driver.pc = "param"
               c1 == IF ran THEN [completer EXCEPT !.completions = @ \o new]
                     ELSE completer
               do_file0 == IF ran THEN use_files ELSE FALSE
           IN /\ completer' = c1
              /\ driver' = [pc |-> "expand", token |-> driver.token,
                            ran |-> ran, use_files |-> do_file0,
                            current_argument_unescape |->
                                driver.current_argument_unescape,
                            do_file |-> SettleDoFile(do_file0, c1.completions,
                                                     completer.flags,
                                                     driver.current_argument_unescape)]
        /\ UNCHANGED <<autoloadVars, matchVars, candidateVars, paramVars, storeVars, threadVars,
                       printVars, subshells, valid>>

\* complete_param_expand: EXPAND_SKIP_CMDSUBST is always set
CompleteParamExpand ==
    \E e \in ExpandOutcomes :
        /\ driver.pc = "expand"
        /\ completer' = Expanded(completer, e)
        /\ driver' = [driver EXCEPT !.pc = "done"]
        /\ UNCHANGED <<autoloadVars, matchVars, candidateVars, paramVars, storeVars, threadVars, printVars, subshells, valid>>

\* comps = completer.get_completions(); the completer is destroyed
CompleteReturn ==
    /\ driver.pc = "done"
    /\ completer' = NoCompleter
    /\ driver' = NoDriver
    /\ subshells' = <<>>
    /\ UNCHANGED <<autoloadVars, matchVars, candidateVars, paramVars, storeVars, threadVars, printVars, valid>>

NextSession ==
    \/ CompleteBegin
    \/ TryCompleteVariable
    \/ TryCompleteUser
    \/ StatementNone
    \/ StatementCommand
    \/ StatementArgument
    \/ CompleteCmdDirect
    \/ CompleteCmdPath
    \/ CompleteCmdNames
    \/ ParamConditionTest
    \/ ParamReturn
    \/ CompleteParamExpand
    \/ CompleteReturn

SpecSession == Init /\ [][NextSession]_vars

(***************************************************************************)
(* Claims about the condition cache and about autosuggestion               *)
(***************************************************************************)
\* the positions in the log of the executions of condition src
ConditionRuns(src) ==
    {i \in 1..Len(subshells) :
        subshells[i].kind = "condition" /\ subshells[i].src = src}

\* C7: in a default-mode request, a non-empty condition source is executed
\* at most once, and every condition_test call with it returns the result of
\* that first execution.
C7_ConditionMemoized ==
    (completer.live /\ CompleterType(completer) = "COMPLETE_DEFAULT") =>
        /\ \A src \in ConditionSources \ {<<>>} :
               Cardinality(ConditionRuns(src)) <= 1
        /\ \A j \in 1..Len(completer.tests) :
               completer.tests[j].condition # <<>> =>
                   \E i \in ConditionRuns(completer.tests[j].condition) :
                       /\ \A h \in ConditionRuns(completer.tests[j].condition) : i <= h
                       /\ completer.tests[j].res = (subshells[i].status = 0)

\* a default-mode request has tested the same non-empty condition twice
C7_Witness ==
    /\ completer.live
    /\ CompleterType(completer) = "COMPLETE_DEFAULT"
    /\ \E i, j \in 1..Len(completer.tests) :
           /\ i < j
           /\ completer.tests[i].condition # <<>>
           /\ completer.tests[i].condition = completer.tests[j].condition

\* C8: condition_test returns true for the empty source in every mode; in
\* autosuggest mode it returns false for every other source, no condition is
\* ever executed and the condition cache stays as it was created, empty.
C8_EmptyTrueAutosuggestFalse ==
    completer.live =>
        /\ \A j \in 1..Len(completer.tests) :
               completer.tests[j].condition = <<>> => completer.tests[j].res
        /\ CompleterType(completer) = "COMPLETE_AUTOSUGGEST" =>
               /\ \A j \in 1..Len(completer.tests) :
                      completer.tests[j].condition # <<>> => ~completer.tests[j].res
               /\ \A i \in 1..Len(subshells) : subshells[i].kind # "condition"
               /\ DOMAIN completer.condition_cache = {}

\* an autosuggest request has tested the empty and a non-empty condition
C8_Witness ==
    /\ completer.live
    /\ CompleterType(completer) = "COMPLETE_AUTOSUGGEST"
    /\ \E i, j \in 1..Len(completer.tests) :
           /\ completer.tests[i].condition = <<>>
           /\ completer.tests[j].condition # <<>>

\* C9: while an autosuggestion request is served, whatever its other flags,
\* no subshell has been executed.
C9_AutosuggestNoSubshell ==
    (completer.live /\ "AUTOSUGGESTION" \in completer.flags) => subshells = <<>>

(***************************************************************************)
(* complete_is_valid_option                                                *)
(***************************************************************************)
\* prefix, then str in single quotes; a message text is one token
format_error(prefix, str) == <<prefix>> \o <<"'">> \o str \o <<"'">>

\* position (1-based) of the last ch in str, 0 for npos
FindLastOf(str, ch) ==
    IF StrHas(str, ch)
    THEN CHOOSE i \in 1..Len(str) :
             str[i] = ch /\ \A j \in (i + 1)..Len(str) : str[j] # ch
    ELSE 0

\* path_get_path: whether the command resolves, and to what
path_get_path(str, resolved) ==
    IF ~resolved THEN [found |-> FALSE, path |-> <<>>]
    ELSE IF StrHas(str, "/") THEN [found |-> TRUE, path |-> str]
    ELSE [found |-> TRUE, path |-> <<"/">> \o str]

parse_cmd_string(str, resolved) ==
    LET p == path_get_path(str, resolved)
        last_slash == FindLastOf(str, "/")
    IN [path |-> IF p.found THEN p.path ELSE <<>>,
        cmd |-> IF last_slash # 0
                THEN SubSeq(str, last_slash + 1, Len(str))
                ELSE str]

\* wildcard_match(str, wc): str against the glob wc
RECURSIVE wildcard_match(_, _)
wildcard_match(str, wc) ==
    IF wc = <<>> THEN str = <<>>
    ELSE IF Head(wc) = "*"
    THEN \/ wildcard_match(str, Tail(wc))
         \/ str # <<>> /\ wildcard_match(Tail(str), wc)
    ELSE IF str = <<>> THEN FALSE
    ELSE /\ Head(wc) = "?" \/ Head(wc) = Head(str)
         /\ wildcard_match(Tail(str), Tail(wc))

complete_is_valid_argument(str, opt, arg) == TRUE

\* wcstring::compare(pos, n, t) == 0, pos counted from 0
CompareEq(s, pos, n, t) ==
    LET last == IF pos + n < Len(s) THEN pos + n ELSE Len(s)
    IN SubSeq(s, pos + 1, last) = t

\* the locals of complete_is_valid_option that the loop over the store sets
ValidLocals(opt) ==
    [found_match |-> FALSE, authoritative |-> TRUE, opt_found |-> FALSE,
     gnu_match_set |-> {}, is_old_opt |-> FALSE, is_gnu_exact |-> FALSE,
     short_validated |-> [j \in 1..Len(opt) |-> FALSE], stop |-> FALSE]

\* the body of the loop for a matching, authoritative entry i
ValidEntry(i, str, opt, is_gnu_opt, gnu_opt_len, st) ==
    LET gnu == {n \in 1..Len(i.options) :
                   /\ ~i.options[n].old_mode
                   /\ CompareEq(opt, 2, gnu_opt_len, i.options[n].long_opt)}
        old == \E n \in 1..Len(i.options) :
                   /\ i.options[n].old_mode
                   /\ CompareEq(opt, 1, Len(opt), i.options[n].long_opt)
        Validate(j) ==
            LET str_idx == StrFind(i.short_opt_str, opt[j])
            IN IF j >= 2 /\ str_idx # 0
               THEN IF /\ str_idx + 1 <= Len(i.short_opt_str)
                       /\ i.short_opt_str[str_idx + 1] = ":"
                    THEN complete_is_valid_argument(
                             str, <<"-">> \o SubSeq(opt, 2, 2),
                             SubSeq(opt, 3, Len(opt)))
                    ELSE TRUE
               ELSE st.short_validated[j]
    IN IF is_gnu_opt
       THEN [st EXCEPT
               !.gnu_match_set = @ \cup {i.options[n].long_opt : n \in gnu},
               !.is_gnu_exact = @ \/ \E n \in gnu :
                   ~CompareEq(opt, 2, Len(i.options[n].long_opt),
                              i.options[n].long_opt)]
       ELSE IF old
       THEN [st EXCEPT !.opt_found = TRUE, !.is_old_opt = TRUE, !.stop = TRUE]
       ELSE [st EXCEPT !.short_validated = [j \in 1..Len(opt) |-> Validate(j)]]

\* the loop over completion_set, from entry n on
RECURSIVE ValidLoop(_, _, _, _, _, _, _, _)
ValidLoop(set, n, str, p, opt, is_gnu_opt, gnu_opt_len, st) ==
    IF n > Len(set) \/ st.stop THEN st
    ELSE LET i == set[n]
             match == IF i.cmd_is_path THEN p.path ELSE p.cmd
         IN IF ~wildcard_match(match, i.cmd)
            THEN ValidLoop(set, n + 1, str, p, opt, is_gnu_opt, gnu_opt_len, st)
            ELSE IF ~i.authoritative
            THEN [st EXCEPT !.found_match = TRUE, !.authoritative = FALSE,
                            !.stop = TRUE]
            ELSE ValidLoop(set, n + 1, str, p, opt, is_gnu_opt, gnu_opt_len,
                           ValidEntry(i, str, opt, is_gnu_opt, gnu_opt_len,
                                      [st EXCEPT !.found_match = TRUE]))

\* errors->push_back(msg) when errors is given
PushError(errors, msg) == IF errors = NULL THEN errors ELSE Append(errors, msg)

\* a return that looks at found_match alone
ValidReturnFoundOnly(st) ==
    IF st.found_match THEN st.opt_found ELSE TRUE

\* what is returned when the loop is done
ValidReturn(st) ==
    IF st.authoritative /\ st.found_match THEN st.opt_found ELSE TRUE

\* the code after the loop: judge the option, report, return
ValidJudge(opt, is_gnu_opt, errors, st) ==
    LET is_short_opt == st.authoritative /\ ~is_gnu_opt /\ ~st.is_old_opt
        bad == {j \in 2..Len(opt) : ~st.short_validated[j]}
        first == CHOOSE j \in bad : \A h \in bad : j <= h
        gnu_found == st.is_gnu_exact \/ Cardinality(st.gnu_match_set) = 1
        opt_found ==
            IF ~st.authoritative THEN st.opt_found
            ELSE IF is_gnu_opt THEN gnu_found
            ELSE IF is_short_opt THEN bad = {}
            ELSE st.opt_found
        reported ==
            IF ~st.authoritative THEN errors
            ELSE IF is_short_opt /\ bad # {}
            THEN PushError(errors, format_error("Unknown option: ",
                                                SubSeq(opt, first, first)))
            ELSE IF is_gnu_opt /\ ~gnu_found
            THEN PushError(errors,
                           format_error(IF st.gnu_match_set = {}
                                        THEN "Unknown option: "
                                        ELSE "Multiple matches for option: ",
                                        opt))
            ELSE errors
    IN [ret |-> ValidReturn([st EXCEPT !.opt_found = opt_found]),
        errors |-> reported]

\* complete_load leaves the store as it is: the completions of the command
\* are those the store operations have added before the call
complete_is_valid_option(set, str, opt, errors, allow_autoload, resolved) ==
    IF opt = <<>> THEN [ret |-> FALSE, errors |-> errors]
    ELSE IF Len(opt) = 1 \/ opt = <<"-", "-">>
    THEN [ret |-> TRUE, errors |-> errors]
    ELSE IF opt[1] # "-"
    THEN [ret |-> FALSE,
          errors |-> PushError(errors, <<"Option does not begin with a '-'">>)]
    ELSE LET is_gnu_opt == opt[2] = "-"
             opt_end == StrFind(opt, "=")
             gnu_opt_len == IF ~is_gnu_opt THEN 0
                            ELSE IF opt_end # 0 THEN (opt_end - 1) - 2
                            ELSE Len(opt) - 2
             p == parse_cmd_string(str, resolved)
             st == ValidLoop(set, 1, str, p, opt, is_gnu_opt, gnu_opt_len,
                             ValidLocals(opt))
         IN ValidJudge(opt, is_gnu_opt, errors, st)

(***************************************************************************)
(* Validation of options against a store built by the store operations     *)
(***************************************************************************)
MaxValidOrder == 6

ValidKeys ==
    {[cmd |-> CmdC, cmd_is_path |-> FALSE],
     [cmd |-> <<"/">> \o CmdC, cmd_is_path |-> TRUE]}

\* a short option with and without a required argument, a second letter,
\* a long option in GNU and in old style
ValidAddCalls ==
    UNION {
        {AddCall(key, "a", NULL, FALSE, m, NULL, NULL, NULL, {}) :
            m \in {0, NO_COMMON}}
        \cup {AddCall(key, "b", NULL, FALSE, 0, NULL, NULL, NULL, {})}
        \cup {AddCall(key, NUL, <<"a">>, old, 0, NULL, NULL, NULL, {}) :
            old \in BOOLEAN}
        : key \in ValidKeys}

ValidAuthoritativeCalls ==
    {[op |-> "set_authoritative", cmd |-> key.cmd,
      cmd_is_path |-> key.cmd_is_path, authoritative |-> b] :
        key \in ValidKeys, b \in BOOLEAN}

ValidCommands == {CmdC}

ValidOpts ==
    {<<>>, <<"-">>, <<"a">>, <<"a", "b">>, <<"-", "-">>,
     <<"-", "a">>, <<"-", "b">>, <<"-", ":">>, <<"-", "=">>,
     <<"-", "a", "b">>, <<"-", "b", "a">>, <<"-", "a", ":">>,
     <<"-", "-", "a">>, <<"-", "-", "b">>, <<"-", "-", "=">>,
     <<"-", "-", "a", "=", "b">>, <<"-", "-", "=", "a">>,
     <<"-", "-", "a", "b">>}

ValidAdd == SerialAdd(ValidAddCalls, MaxValidOrder)
ValidSetAuthoritative ==
    SerialSetAuthoritative(ValidAuthoritativeCalls, MaxValidOrder)

\* a call of complete_is_valid_option on the store as it stands
CallIsValidOption(commands, opts) ==
    \E str \in commands, opt \in opts, errors \in {NULL, <<>>},
       resolved \in BOOLEAN :
        /\ phase = "store"
        /\ LET r == complete_is_valid_option(completion_set, str, opt, errors,
                                             FALSE, resolved)
           IN valid' = [called |-> TRUE, str |-> str, opt |-> opt,
                        resolved |-> resolved, errors_out |-> errors,
                        ret |-> r.ret, errors |-> r.errors]
        /\ phase' = "valid"
        /\ UNCHANGED <<autoloadVars, matchVars, candidateVars, paramVars, storeVars, threadVars, out, replayed, sessionVars>>

IsValidOption == CallIsValidOption(ValidCommands, ValidOpts)

\* the caller has used the answer
IsValidOptionDone ==
    /\ phase = "valid"
    /\ phase' = "store"
    /\ valid' = NoValid
    /\ UNCHANGED <<autoloadVars, matchVars, candidateVars, paramVars, storeVars, threadVars, out, replayed, sessionVars>>

NextValid ==
    \/ ValidAdd
    \/ ValidSetAuthoritative
    \/ IsValidOption
    \/ IsValidOptionDone

SpecValid == Init /\ [][NextValid]_vars

\* the schemas of the store that match the command of the call
MatchingSchemas ==
    LET p == parse_cmd_string(valid.str, valid.resolved)
    IN {n \in 1..Len(completion_set) :
           wildcard_match(IF completion_set[n].cmd_is_path THEN p.path ELSE p.cmd,
                          completion_set[n].cmd)}

\* the options the matching schemas declare
MatchingOptions ==
    UNION {Range(completion_set[n].options) : n \in MatchingSchemas}

\* the long name a GNU-style opt spells: what follows "--", up to a "="
GnuName(opt) ==
    LET opt_end == StrFind(opt, "=")
    IN SubSeq(opt, 3, IF opt_end # 0 THEN opt_end - 1 ELSE Len(opt))

\* opt is "--name" for a declared GNU long option, "-name" for a declared
\* old-style long option, or "-" and letters that are all declared
DeclaredOpt(opt) ==
    IF opt[2] = "-"
    THEN \E o \in MatchingOptions :
             ~o.old_mode /\ o.long_opt # <<>> /\ o.long_opt = GnuName(opt)
    ELSE \/ \E o \in MatchingOptions :
                o.old_mode /\ o.long_opt = SubSeq(opt, 2, Len(opt))
         \/ \A j \in 2..Len(opt) :
                \E o \in MatchingOptions : o.short_opt = opt[j]

\* C10: for an opt of length at least 2 that begins with '-' and is not "--",
\* if every schema matching the command is authoritative and none declares the
\* option, complete_is_valid_option returns false and appends an error to the
\* errors given, one that starts with "Unknown option: " when opt is "-" and
\* letters.
C10_AuthoritativeRejection ==
    (/\ valid.called
     /\ Len(valid.opt) >= 2
     /\ valid.opt[1] = "-"
     /\ valid.opt # <<"-", "-">>
     /\ \A n \in MatchingSchemas : completion_set[n].authoritative
     /\ ~DeclaredOpt(valid.opt))
    => /\ ~valid.ret
       /\ valid.errors_out # NULL =>
              /\ Len(valid.errors) > Len(valid.errors_out)
              /\ valid.opt[2] # "-" =>
                     valid.errors[Len(valid.errors)][1] = "Unknown option: "

\* the errors the call appended
NewErrors ==
    IF valid.errors_out = NULL THEN <<>>
    ELSE SubSeq(valid.errors, Len(valid.errors_out) + 1, Len(valid.errors))

\* C11: for an opt of length at least 2 that begins with '-', if some schema
\* matching the command is non-authoritative, complete_is_valid_option
\* returns true and appends no "Unknown option: " and no "Multiple matches
\* for option: " error, whatever the matching schemas declare and in whatever
\* order they are visited.
C11_NonAuthoritativeAccepts ==
    (/\ valid.called
     /\ Len(valid.opt) >= 2
     /\ valid.opt[1] = "-"
     /\ \E n \in MatchingSchemas : ~completion_set[n].authoritative)
    => /\ valid.ret
       /\ \A i \in 1..Len(NewErrors) :
              NewErrors[i][1] \notin {"Unknown option: ",
                                      "Multiple matches for option: "}

\* an authoritative schema that does not declare the option is visited
\* first, a non-authoritative one after it
C11_Witness ==
    /\ valid.called
    /\ Len(valid.opt) >= 2
    /\ valid.opt[1] = "-"
    /\ valid.opt # <<"-", "-">>
    /\ valid.errors_out # NULL
    /\ ~DeclaredOpt(valid.opt)
    /\ \E m, n \in MatchingSchemas :
           /\ m < n
           /\ completion_set[m].authoritative
           /\ ~completion_set[n].authoritative
    /\ valid.ret

(***************************************************************************)
(* Validation of GNU-style options against long names with a common prefix *)
(***************************************************************************)
MaxGnuOrder == 6

GnuKey == [cmd |-> CmdC, cmd_is_path |-> FALSE]

GnuLongOpts == {<<"a">>, <<"a", "b">>, <<"a", "c">>}

GnuAddCalls ==
    {AddCall(GnuKey, NUL, l, old, 0, NULL, NULL, NULL, {}) :
        l \in GnuLongOpts, old \in BOOLEAN}

GnuAuthoritativeCalls ==
    {[op |-> "set_authoritative", cmd |-> GnuKey.cmd,
      cmd_is_path |-> GnuKey.cmd_is_path, authoritative |-> b] : b \in BOOLEAN}

GnuOpts ==
    {<<"-", "-", "a">>, <<"-", "-", "a", "b">>, <<"-", "-", "a", "c">>,
     <<"-", "-", "b">>, <<"-", "-", "a", "=", "b">>,
     <<"-", "-", "a", "b", "=", "c">>, <<"-", "-">>, <<"-", "a", "b">>}

GnuAdd == SerialAdd(GnuAddCalls, MaxGnuOrder)
GnuSetAuthoritative == SerialSetAuthoritative(GnuAuthoritativeCalls, MaxGnuOrder)
GnuIsValidOption == CallIsValidOption(ValidCommands, GnuOpts)

NextGnu ==
    \/ GnuAdd
    \/ GnuSetAuthoritative
    \/ GnuIsValidOption
    \/ IsValidOptionDone

SpecGnu == Init /\ [][NextGnu]_vars

IsPrefix(p, str) == Len(p) <= Len(str) /\ SubSeq(str, 1, Len(p)) = p

\* the GNU long names the matching schemas declare
GnuDeclaredNames ==
    {o.long_opt : o \in {x \in MatchingOptions :
                            ~x.old_mode /\ x.long_opt # <<>>}}

\* the declared GNU long names that opt matches: those it abbreviates or spells
GnuMatched(opt) == {n \in GnuDeclaredNames : IsPrefix(GnuName(opt), n)}

\* C12: with at least one matching schema and all of them authoritative, a
\* GNU-style opt (--name or --name=value) that is matched by more than one
\* distinct declared GNU long option and by none exactly is rejected with an
\* error starting with "Multiple matches for option: "; matched by exactly
\* one it is accepted; matched by none it is rejected with an error starting
\* with "Unknown option: ".
C12_GnuAmbiguity ==
    (/\ valid.called
     /\ Len(valid.opt) > 2
     /\ valid.opt[1] = "-" /\ valid.opt[2] = "-"
     /\ valid.errors_out # NULL
     /\ MatchingSchemas # {}
     /\ \A n \in MatchingSchemas : completion_set[n].authoritative)
    => LET matched == GnuMatched(valid.opt)
           exact == GnuName(valid.opt) \in matched
       IN /\ (Cardinality(matched) > 1 /\ ~exact) =>
                 /\ ~valid.ret
                 /\ Len(NewErrors) > 0
                 /\ NewErrors[1][1] = "Multiple matches for option: "
          /\ Cardinality(matched) = 1 => valid.ret
          /\ matched = {} =>
                 /\ ~valid.ret
                 /\ Len(NewErrors) > 0
                 /\ NewErrors[1][1] = "Unknown option: "

(***************************************************************************)
(* Construction of candidates: completion_t, append_completion and the      *)
(* switches complete_param offers                                          *)
(***************************************************************************)
MaxBuilt == 2

\* the characters of L"/=@:"
NoSpaceSuffixes == {"/", "=", "@", ":"}

\* resolve_auto_space that leaves COMPLETE_AUTO_SPACE set
resolve_auto_space_kept(comp, flags) ==
    IF "AUTO_SPACE" \in flags
    THEN IF Len(comp) > 0 /\ comp[Len(comp)] \in NoSpaceSuffixes
         THEN flags \cup {"NO_SPACE"}
         ELSE flags
    ELSE flags

resolve_auto_space(comp, flags) ==
    IF "AUTO_SPACE" \in flags
    THEN IF Len(comp) > 0 /\ comp[Len(comp)] \in NoSpaceSuffixes
         THEN (flags \ {"AUTO_SPACE"}) \cup {"NO_SPACE"}
         ELSE flags \ {"AUTO_SPACE"}
    ELSE flags

\* completion_t::completion_t(comp, desc, mat, flags_val)
completion_t(comp, desc, flags_val) ==
    Candidate(comp, desc, resolve_auto_space(comp, flags_val))

\* the completion_t that append_completion pushes: built empty with the
\* resolved flags, then given its text and description
append_completion(comp, desc, flags) ==
    LET last == completion_t(<<>>, <<>>, resolve_auto_space(comp, flags))
    IN [last EXCEPT !.completion = comp, !.description = desc]

CandidateTexts ==
    {<<>>, <<"a">>, <<"a", "/">>, <<"a", "=">>, <<"@">>, <<":">>}

\* flags_val: nothing, AUTO_SPACE alone and with another flag, NO_SPACE alone
CandidateFlags ==
    {{}, {"AUTO_SPACE"}, {"AUTO_SPACE", "REPLACES_TOKEN"},
     {"AUTO_SPACE", "NO_SPACE"}, {"NO_SPACE"}}

\* a candidate, the flags it was asked to have and the code that built it
Built(c, requested, by) == [c |-> c, requested |-> requested, by |-> by]

Construct ==
    \E comp \in CandidateTexts, f \in CandidateFlags :
        /\ Len(built) < MaxBuilt
        /\ built' = Append(built, Built(completion_t(comp, <<>>, f), f, "completion_t"))
        /\ UNCHANGED <<autoloadVars, matchVars, storeVars, threadVars, printVars, sessionVars, valid,
                       paramVars>>

AppendCompletion ==
    \E comp \in CandidateTexts, f \in CandidateFlags :
        /\ Len(built) < MaxBuilt
        /\ built' = Append(built, Built(append_completion(comp, <<>>, f), f,
                                     "append_completion"))
        /\ UNCHANGED <<autoloadVars, matchVars, storeVars, threadVars, printVars, sessionVars, valid,
                       paramVars>>

\* no string taken for the beginning of another
string_prefixes_string_never(proposed_prefix, value) == FALSE

\* string_prefixes_string(proposed_prefix, value)
string_prefixes_string(proposed_prefix, value) ==
    /\ Len(proposed_prefix) <= Len(value)
    /\ SubSeq(value, 1, Len(proposed_prefix)) = proposed_prefix

\* wcsncasecmp(a, b, n) == 0 for n = Len(a)
CasePrefix(a, b) ==
    /\ Len(a) <= Len(b)
    /\ \A i \in 1..Len(a) : towupper(a[i]) = towupper(b[i])

\* complete_param: the candidates for the long option o when str is typed
ParamLongCandidates(o, str) ==
    LET whole_opt == (IF o.old_mode THEN <<"-">> ELSE <<"-", "-">>) \o o.long_opt
        match == string_prefixes_string(str, whole_opt)
        match_no_case == ~match /\ CasePrefix(str, whole_opt)
        offset == IF match THEN Len(str) ELSE 0
        flags == IF match THEN {} ELSE {"REPLACES_TOKEN"}
        has_arg == o.comp # <<>>
        req_arg == HasBit(o.result_mode, NO_COMMON)
        rest == SubSeq(whole_opt, offset + 1, Len(whole_opt))
        with_eq == IF ~o.old_mode /\ has_arg /\ ~req_arg
                   THEN <<Built(append_completion(rest \o <<"=">>, C_(o.desc),
                                                  flags),
                           flags, "complete_param")>>
                   ELSE <<>>
    IN IF o.long_opt # <<>> /\ (match \/ match_no_case)
       THEN with_eq \o <<Built(append_completion(rest, C_(o.desc), flags),
                                flags, "complete_param")>>
       ELSE <<>>

\* the option entries complete_param may hold
CandidateOptions ==
    {[short_opt |-> NUL, long_opt |-> <<"x">>, old_mode |-> old,
      result_mode |-> m, condition |-> <<>>, comp |-> comp, desc |-> <<>>,
      flags |-> {}] :
        old \in BOOLEAN, m \in {0, NO_COMMON}, comp \in {<<>>, <<"y">>}}

CandidateStrs == {<<"-">>, <<"-", "-">>, <<"-", "-", "X">>}

ParamLongOption ==
    \E o \in CandidateOptions, str \in CandidateStrs :
        /\ ParamLongCandidates(o, str) # <<>>
        /\ Len(built) + Len(ParamLongCandidates(o, str)) <= MaxBuilt
        /\ built' = built \o ParamLongCandidates(o, str)
        /\ UNCHANGED <<autoloadVars, matchVars, storeVars, threadVars, printVars, sessionVars, valid,
                       paramVars>>

NextCandidate ==
    \/ Construct
    \/ AppendCompletion
    \/ ParamLongOption

SpecCandidate == Init /\ [][NextCandidate]_vars

\* the text ends in one of / = @ :
EndsNoSpace(comp) == Len(comp) > 0 /\ comp[Len(comp)] \in NoSpaceSuffixes

\* C13: no candidate built by the completion_t constructor or by
\* append_completion carries AUTO_SPACE; when AUTO_SPACE was asked for it is
\* cleared and NO_SPACE is added iff the text is non-empty and ends in one of
\* / = @ :, and every other flag passed in is left as it was.
C13_AutoSpaceResolved ==
    \A i \in 1..Len(built) :
        LET b == built[i]
        IN /\ "AUTO_SPACE" \notin b.c.flags
           /\ b.c.flags =
                  IF "AUTO_SPACE" \in b.requested
                  THEN (b.requested \ {"AUTO_SPACE"})
                       \cup (IF EndsNoSpace(b.c.completion)
                             THEN {"NO_SPACE"} ELSE {})
                  ELSE b.requested

\* AUTO_SPACE was asked for with other flags, once for a text that ends in
\* one of the four characters and once for a text that does not
C13_Witness ==
    \E i, j \in 1..Len(built) :
        /\ built[i].requested = {"AUTO_SPACE", "REPLACES_TOKEN"}
        /\ EndsNoSpace(built[i].c.completion)
        /\ "NO_SPACE" \in built[i].c.flags
        /\ built[j].requested = {"AUTO_SPACE", "REPLACES_TOKEN"}
        /\ ~EndsNoSpace(built[j].c.completion)
        /\ "NO_SPACE" \notin built[j].c.flags

\* C14: every candidate has NO_SPACE in its flags iff its text ends in one
\* of / = @ : or NO_SPACE was passed when it was constructed, also when it
\* was constructed with flags that do not contain AUTO_SPACE.
C14_NoSpaceIffSuffix ==
    \A i \in 1..Len(built) :
        "NO_SPACE" \in built[i].c.flags <=>
            (EndsNoSpace(built[i].c.completion)
             \/ "NO_SPACE" \in built[i].requested)

(***************************************************************************)
(* The two locks: the store operations, the readers of the store and the   *)
(* parameter matcher with its callbacks, run by threads                    *)
(***************************************************************************)
MaxLockOrder == 4

LockKey == [cmd |-> CmdC, cmd_is_path |-> FALSE]

LockAddCalls ==
    {AddCall(LockKey, "a", NULL, FALSE, 0, NULL, NULL, NULL, {}),
     AddCall(LockKey, NUL, <<"x">>, FALSE, 0, NULL, NULL, NULL, {})}

LockRemoveCalls ==
    {[op |-> "remove", cmd |-> LockKey.cmd, cmd_is_path |-> LockKey.cmd_is_path,
      short_opt |-> NUL, long_opt |-> NULL]}

LockAuthoritativeCalls ==
    {[op |-> "set_authoritative", cmd |-> LockKey.cmd,
      cmd_is_path |-> LockKey.cmd_is_path, authoritative |-> TRUE]}

LockAddEnter(t) ==
    \E a \in LockAddCalls :
        /\ kCompleteOrder + 2 <= MaxLockOrder
        /\ Enter(t, a, "add_lock2")

LockSetAuthoritativeEnter(t) ==
    \E a \in LockAuthoritativeCalls :
        /\ kCompleteOrder + 2 <= MaxLockOrder
        /\ Enter(t, a, "auth_body")

LockRemoveEnter(t) ==
    \E a \in LockRemoveCalls :
        /\ kCompleteOrder + 1 <= MaxLockOrder
        /\ Enter(t, a, "remove_lock2")

\* scoped_lock lock(completion_lock) of an operation that reads the store
ReadEnter(t, op, next) ==
    /\ ~crashed
    /\ pc[t] = "idle"
    /\ completion_lock = 0
    /\ completion_lock' = t
    /\ pc' = [pc EXCEPT ![t] = next]
    /\ call' = [call EXCEPT ![t] = [op |-> op, cmd |-> CmdC]]
    /\ UNCHANGED <<autoloadVars, matchVars, storeVars, completion_entry_lock, before, crashed,
                   printVars, sessionVars, valid, candidateVars, paramVars>>

\* complete_is_valid_option and complete_print: both locks, then the loop
\* over completion_set, which changes nothing in the store
IsValidOptionEnter(t) == ReadEnter(t, "is_valid_option", "read_lock2")
CompletePrintEnter(t) == ReadEnter(t, "print", "read_lock2")
ReadLock2(t) == LockEntries(t, "read_lock2", "read_body")

ReadBody(t) ==
    /\ ~crashed
    /\ pc[t] = "read_body"
    /\ pc' = [pc EXCEPT ![t] = "unlock2"]
    /\ UNCHANGED <<autoloadVars, matchVars, storeVars, completion_lock, completion_entry_lock, call,
                   before, crashed, printVars, sessionVars, valid,
                   candidateVars, paramVars>>

\* complete_param: the copies of short_opt_str and options of the entries
\* that match the command
RECURSIVE SnapshotOf(_, _)
SnapshotOf(set, p) ==
    IF set = <<>> THEN <<>>
    ELSE LET i == Head(set)
             match == IF i.cmd_is_path THEN p.path ELSE p.cmd
         IN (IF wildcard_match(match, i.cmd)
             THEN <<[short_opt_str |-> i.short_opt_str, options |-> i.options]>>
             ELSE <<>>) \o SnapshotOf(Tail(set), p)

\* the option lists the loop after the locks iterates: the entries' own
\* lists, as they are in the store when the loop runs
StoreOptions(all_options, set, p) == SnapshotOf(set, p)

\* the option lists the loop after the locks iterates: those of all_options
LocalOptions(all_options, set, p) == all_options

\* the options of a list of local_options_t, in the order the loops take them
RECURSIVE Flatten(_)
Flatten(all_options) ==
    IF all_options = <<>> THEN <<>>
    ELSE Head(all_options).options \o Flatten(Tail(all_options))

ParamEnter(t) == ReadEnter(t, "param", "param_lock2")
ParamLock2(t) == LockEntries(t, "param_lock2", "param_snapshot")

\* the loop under the locks that fills all_options
ParamSnapshot(t) ==
    /\ ~crashed
    /\ pc[t] = "param_snapshot"
    /\ LET all == SnapshotOf(completion_set, parse_cmd_string(call[t].cmd, FALSE))
       IN snap' = [snap EXCEPT ![t] =
                      [taken |-> TRUE, all_options |-> all, held |-> all,
                       processed |-> <<>>, called |-> FALSE, callbacks |-> 0]]
    /\ pc' = [pc EXCEPT ![t] = "param_unlock2"]
    /\ UNCHANGED <<autoloadVars, matchVars, storeVars, completion_lock, completion_entry_lock, call,
                   before, crashed, printVars, sessionVars, valid,
                   candidateVars>>

\* the end of the block: ~scoped_lock of lock2 ...
ParamUnlock2(t) ==
    /\ ~crashed
    /\ pc[t] = "param_unlock2"
    /\ completion_entry_lock' = 0
    /\ pc' = [pc EXCEPT ![t] = "param_unlock1"]
    /\ UNCHANGED <<autoloadVars, matchVars, storeVars, completion_lock, call, before, crashed,
                   printVars, sessionVars, valid, candidateVars, paramVars>>

\* the block ends but completion_lock stays locked
ParamUnlock1Kept(t) ==
    /\ ~crashed
    /\ pc[t] = "param_unlock1"
    /\ pc' = [pc EXCEPT ![t] = "param_iter"]
    /\ UNCHANGED <<autoloadVars, matchVars, storeVars, completion_lock, completion_entry_lock, call,
                   before, crashed, printVars, sessionVars, valid,
                   candidateVars, paramVars>>

\* ... and of lock
ParamUnlock1(t) ==
    /\ ~crashed
    /\ pc[t] = "param_unlock1"
    /\ completion_lock' = 0
    /\ pc' = [pc EXCEPT ![t] = "param_iter"]
    /\ UNCHANGED <<autoloadVars, matchVars, storeVars, completion_entry_lock, call, before, crashed,
                   printVars, sessionVars, valid, candidateVars, paramVars>>

\* what a condition or an argument script may do to the store: nothing, or
\* a complete_add or complete_remove of its own
CallbackCalls ==
    {NoCall} \cup LockAddCalls
    \cup {[op |-> "remove", cmd |-> LockKey.cmd,
           cmd_is_path |-> LockKey.cmd_is_path,
           short_opt |-> NUL, long_opt |-> NULL]}

\* the store and the counter after the script's call, which takes and
\* releases both locks itself
CallbackEffect(set, k, cb) ==
    IF cb.op = "add" THEN complete_add(set, k, cb)
    ELSE IF cb.op = "remove" THEN complete_remove(set, k, cb, FALSE)
    ELSE [set |-> set, k |-> k]

\* the options the loops of complete_param go through, in order
ParamOptions(t) ==
    Flatten(LocalOptions(snap[t].all_options, completion_set,
                         parse_cmd_string(call[t].cmd, FALSE)))

\* condition_test(o->condition) / complete_from_args(..., o->comp, ...) for
\* the next option: the user's script runs
ParamCallback(t) ==
    \E cb \in CallbackCalls :
        /\ ~crashed
        /\ pc[t] = "param_iter"
        /\ ~snap[t].called
        /\ Len(snap[t].processed) < Len(ParamOptions(t))
        /\ cb.op # "none" =>
               /\ completion_lock = 0
               /\ completion_entry_lock = 0
               /\ kCompleteOrder + 2 <= MaxLockOrder
        /\ LET r == CallbackEffect(completion_set, kCompleteOrder, cb)
           IN /\ completion_set' = r.set
              /\ kCompleteOrder' = r.k
        /\ snap' = [snap EXCEPT ![t].called = TRUE, ![t].callbacks = @ + 1]
        /\ UNCHANGED <<autoloadVars, matchVars, threadVars, printVars, sessionVars, valid, candidateVars>>

\* the option is matched against the token
ParamProcess(t) ==
    /\ ~crashed
    /\ pc[t] = "param_iter"
    /\ snap[t].called
    /\ snap' = [snap EXCEPT
                  ![t].called = FALSE,
                  ![t].processed =
                      IF Len(@) < Len(ParamOptions(t))
                      THEN Append(@, ParamOptions(t)[Len(@) + 1])
                      ELSE @]
    /\ UNCHANGED <<autoloadVars, matchVars, storeVars, threadVars, printVars, sessionVars, valid,
                   candidateVars>>

\* the loops are over
ParamDone(t) ==
    /\ ~crashed
    /\ pc[t] = "param_iter"
    /\ ~snap[t].called
    /\ Len(snap[t].processed) >= Len(ParamOptions(t))
    /\ pc' = [pc EXCEPT ![t] = "param_done"]
    /\ UNCHANGED <<autoloadVars, matchVars, storeVars, completion_lock, completion_entry_lock, call,
                   before, crashed, printVars, sessionVars, valid,
                   candidateVars, paramVars>>

\* return use_files
ParamLeave(t) ==
    /\ ~crashed
    /\ pc[t] = "param_done"
    /\ pc' = [pc EXCEPT ![t] = "idle"]
    /\ call' = [call EXCEPT ![t] = NoCall]
    /\ snap' = [snap EXCEPT ![t] = NoSnap]
    /\ UNCHANGED <<autoloadVars, matchVars, storeVars, completion_lock, completion_entry_lock, before,
                   crashed, printVars, sessionVars, valid, candidateVars>>

\* every step thread t may take
LockStep(t) ==
        \/ LockAddEnter(t)
        \/ AddLock2(t)
        \/ AddBody(t)
        \/ LockSetAuthoritativeEnter(t)
        \/ SetAuthoritativeBody(t)
        \/ LockRemoveEnter(t)
        \/ RemoveLock2(t)
        \/ RemoveBody(t)
        \/ Unlock2(t)
        \/ Unlock1(t)
        \/ IsValidOptionEnter(t)
        \/ CompletePrintEnter(t)
        \/ ReadLock2(t)
        \/ ReadBody(t)
        \/ ParamEnter(t)
        \/ ParamLock2(t)
        \/ ParamSnapshot(t)
        \/ ParamUnlock2(t)
        \/ ParamUnlock1(t)
        \/ ParamCallback(t)
        \/ ParamProcess(t)
        \/ ParamDone(t)
        \/ ParamLeave(t)

NextLocks == \E t \in Threads : LockStep(t)

SpecLocks == Init /\ [][NextLocks]_vars

\* C15: completion_entry_lock is only ever held by the thread that already
\* holds completion_lock (completion_lock is taken first), and the operations
\* never deadlock: while some operation is under way, some thread that is
\* inside an operation can take its next step.
C15_LockOrderNoDeadlock ==
    /\ \A t \in Threads :
           completion_entry_lock = t => completion_lock = t
    /\ (~crashed /\ \E t \in Threads : pc[t] # "idle") =>
           \E t \in Threads : pc[t] # "idle" /\ ENABLED LockStep(t)

\* one thread holds both locks inside complete_remove while the other is in
\* the loops of complete_param
C15_Witness ==
    \E t, u \in Threads :
        /\ t # u
        /\ completion_lock = t
        /\ completion_entry_lock = t
        /\ pc[t] = "remove_body"
        /\ pc[u] = "param_iter"

\* thread t holds lock l before and after the step
HoldsThrough(t, l) == l = t /\ l' = t

\* C16 as stated: every step that changes the store is taken by a thread that
\* holds both completion_lock and completion_entry_lock throughout.
C16_MutationHoldsBoth ==
    [][storeVars' # storeVars =>
         \E t \in Threads :
             /\ HoldsThrough(t, completion_lock)
             /\ HoldsThrough(t, completion_entry_lock)]_vars

\* C16 amended: every step that changes the store is taken by a thread that
\* holds completion_lock throughout; in complete_add and complete_remove it
\* holds completion_entry_lock throughout as well, in
\* complete_set_authoritative (creating the schema included) nobody holds
\* completion_entry_lock.
C16_MutationLocks ==
    [][storeVars' # storeVars =>
         \E t \in Threads :
             /\ HoldsThrough(t, completion_lock)
             /\ call[t].op \in {"add", "remove"} =>
                    HoldsThrough(t, completion_entry_lock)
             /\ call[t].op = "set_authoritative" =>
                    /\ completion_entry_lock = 0
                    /\ completion_entry_lock' = 0]_vars

\* complete_set_authoritative has created a schema and set its flag, holding
\* completion_lock alone, next to a schema complete_add filled
C16_Witness ==
    \E t \in Threads :
        /\ pc[t] = "unlock1"
        /\ call[t].op = "set_authoritative"
        /\ completion_lock = t
        /\ completion_entry_lock = 0
        /\ \E i, j \in 1..Len(completion_set) :
               /\ completion_set[i].authoritative
               /\ completion_set[i].options = <<>>
               /\ completion_set[j].options # <<>>

\* the candidates of variable completion
IsVariableCandidate(c) == c = Candidate(<<"s">>, <<>>, {})

\* C19: variable completion is the first completer of a request (nothing is
\* in the result and no subshell has run when it starts), and when it appends
\* a candidate the driver is done: the only step left hands the result over,
\* which holds the variable candidates only.
C19_VariableFirstAndStops ==
    [][/\ driver.pc = "variable" =>
              /\ completer.completions = <<>>
              /\ subshells = <<>>
       /\ (driver.pc = "variable"
           /\ completer'.completions # completer.completions) =>
              /\ driver'.pc = "done"
              /\ \A i \in 1..Len(completer'.completions) :
                     IsVariableCandidate(completer'.completions[i])
       /\ driver.pc = "done" =>
              /\ driver'.pc = "idle"
              /\ ~completer'.live]_vars

\* variable completion has appended its candidate for a "$l" token and the
\* driver has stopped
C19_Witness ==
    /\ driver.pc = "done"
    /\ StrHas(driver.token, "$")
    /\ completer.completions = <<Candidate(<<"s">>, <<>>, {})>>

\* C20: when the user-completion step appends nothing, the driver goes on to
\* the plain-statement lookup; it stops after that step only when a candidate
\* was appended.
C20_UserStopsOnlyWithCandidate ==
    [][(driver.pc = "user"
        /\ completer'.completions = completer.completions) =>
           driver'.pc = "statement"]_vars

\* thread t holds neither lock
HoldsNoLock(t) == completion_lock # t /\ completion_entry_lock # t

\* C17: whenever complete_param evaluates a condition or an argument script,
\* the calling thread holds neither completion_lock nor
\* completion_entry_lock, before the call and after it.
C17_CallbackHoldsNoLock ==
    [][\A t \in Threads :
           (/\ snap[t].taken
            /\ snap'[t].taken
            /\ snap'[t].callbacks > snap[t].callbacks) =>
               /\ HoldsNoLock(t)
               /\ completion_lock' # t
               /\ completion_entry_lock' # t]_vars

\* a script has run inside the loops with both locks free, and the store no
\* longer holds what was copied
C17_Witness ==
    \E t \in Threads :
        /\ pc[t] = "param_iter"
        /\ snap[t].called
        /\ snap[t].callbacks > 1
        /\ completion_lock = 0
        /\ completion_entry_lock = 0
        /\ SnapshotOf(completion_set, parse_cmd_string(call[t].cmd, FALSE))
               # snap[t].held

\* C18: the options complete_param goes through are those copied under the
\* locks, in their order: at any time the ones handled so far are the first
\* of the copy, and when the loops end they are the whole copy, whatever was
\* added to or removed from the store in between.
C18_IteratesSnapshot ==
    \A t \in Threads :
        snap[t].taken =>
            /\ Len(snap[t].processed) <= Len(Flatten(snap[t].held))
            /\ snap[t].processed =
                   SubSeq(Flatten(snap[t].held), 1, Len(snap[t].processed))
            /\ pc[t] = "param_done" =>
                   snap[t].processed = Flatten(snap[t].held)

\* the loops have ended after going through two copied options although the
\* schema they came from is gone from the store
C18_Witness ==
    \E t \in Threads :
        /\ pc[t] = "param_done"
        /\ Len(snap[t].processed) = 2
        /\ snap[t].processed = Flatten(snap[t].held)
        /\ SnapshotOf(completion_set, parse_cmd_string(call[t].cmd, FALSE))
               = <<>>

\* the driver is between complete_param and the file expansion
AfterParam == driver.pc = "expand" /\ "ran" \in DOMAIN driver

\* C21: on the argument path do_file is the matcher's return value (false
\* when the matcher was not run), true instead when the result is empty, and
\* false whatever the rest when the request is an autosuggestion and the
\* unescaped current argument is empty; the file expansion follows as the
\* next and only step before the result is handed over.
C21_DoFile ==
    [][/\ AfterParam =>
              /\ ~driver.ran => ~driver.use_files
              /\ driver.do_file =
                     IF /\ "AUTOSUGGESTION" \in completer.flags
                        /\ driver.current_argument_unescape = <<>>
                     THEN FALSE
                     ELSE IF completer.completions = <<>> THEN TRUE
                     ELSE driver.use_files
              /\ driver'.pc = "done"
       /\ driver.pc \in {"param", "param_skipped"} =>
              driver'.pc \in {"param", "expand"}]_vars

\* an autosuggestion with an empty argument and an empty result: both rules
\* apply and do_file is false
C21_Witness ==
    /\ AfterParam
    /\ driver.ran
    /\ driver.use_files
    /\ "AUTOSUGGESTION" \in completer.flags
    /\ driver.current_argument_unescape = <<>>
    /\ completer.completions = <<>>
    /\ ~driver.do_file

(***************************************************************************)
(* complete_param and the autoloader                                       *)
(***************************************************************************)
MaxLoads == 3

LoadCmds == {CmdC, CmdLs}

\* completion_autoloader.has_tried_loading(cmd)
has_tried_loading(l, cmd) == cmd \in l.tried

\* completion_autoloader.load(name, reload) run by thread `on`: the command
\* counts as tried from now on
complete_load(l, name, reload, on) ==
    [l EXCEPT !.tried = @ \cup {name},
              !.loads = Append(@, [cmd |-> name, reload |-> reload, on |-> on])]

\* iothread_perform_on_main(complete_load_no_reload, &cmd) called by w
iothread_perform_on_main(l, cmd, w) ==
    [l EXCEPT !.queue = Append(@, [cmd |-> cmd, by |-> w])]

\* the completer type of a session: the main thread serves the default
\* requests, the workers the autosuggestions
SessionType(w) ==
    IF w = "main" THEN "COMPLETE_DEFAULT" ELSE "COMPLETE_AUTOSUGGEST"

\* what is loaded, queued or asked for so far
LoadWork == Len(loader.loads) + Len(loader.queue)

\* complete_param is entered: parse_cmd_string has given cmd
LoadBegin(w) ==
    \E cmd \in LoadCmds :
        /\ sess[w].pc = "idle"
        /\ LoadWork < MaxLoads
        /\ sess' = [sess EXCEPT ![w] = [pc |-> "load", cmd |-> cmd,
                                        asked |-> FALSE]]
        /\ UNCHANGED <<storeVars, threadVars, printVars, sessionVars, valid,
                       candidateVars, paramVars, loader, matchVars>>

\* COMPLETE_DEFAULT: complete_load(cmd, true) on the calling, main, thread
LoadDefault(w) ==
    /\ sess[w].pc = "load"
    /\ SessionType(w) = "COMPLETE_DEFAULT"
    /\ loader' = complete_load(loader, sess[w].cmd, TRUE, w)
    /\ sess' = [sess EXCEPT ![w].pc = "snapshot"]
    /\ UNCHANGED <<storeVars, threadVars, printVars, sessionVars, valid,
                   candidateVars, paramVars, matchVars>>

\* COMPLETE_AUTOSUGGEST: if (! completion_autoloader.has_tried_loading(cmd))
LoadCheckTried(w) ==
    /\ sess[w].pc = "load"
    /\ SessionType(w) = "COMPLETE_AUTOSUGGEST"
    /\ sess' = [sess EXCEPT ![w].pc = IF has_tried_loading(loader, sess[w].cmd)
                                      THEN "snapshot" ELSE "dispatch"]
    /\ UNCHANGED <<storeVars, threadVars, printVars, sessionVars, valid,
                   candidateVars, paramVars, loader, matchVars>>

\* iothread_perform_on_main(complete_load_no_reload, &cmd)
LoadDispatch(w) ==
    /\ sess[w].pc = "dispatch"
    /\ loader' = iothread_perform_on_main(loader, sess[w].cmd, w)
    /\ sess' = [sess EXCEPT ![w].pc = "dispatched", ![w].asked = TRUE]
    /\ UNCHANGED <<storeVars, threadVars, printVars, sessionVars, valid,
                   candidateVars, paramVars, matchVars>>

\* the worker goes on to the snapshot; whether it waited for the main thread
\* to run its request is the business of iothread_perform_on_main
LoadProceed(w) ==
    /\ sess[w].pc = "dispatched"
    /\ sess' = [sess EXCEPT ![w].pc = "snapshot"]
    /\ UNCHANGED <<storeVars, threadVars, printVars, sessionVars, valid,
                   candidateVars, paramVars, loader, matchVars>>

\* the main thread, between its own requests, runs complete_load_no_reload
LoadOnMain ==
    /\ sess["main"].pc = "idle"
    /\ loader.queue # <<>>
    /\ loader' = [complete_load(loader, Head(loader.queue).cmd, FALSE, "main")
                     EXCEPT !.queue = Tail(@)]
    /\ UNCHANGED <<storeVars, threadVars, printVars, sessionVars, valid,
                   candidateVars, paramVars, sess, matchVars>>

\* the snapshot is taken and the rest of complete_param runs
LoadSnapshot(w) ==
    /\ sess[w].pc = "snapshot"
    /\ sess' = [sess EXCEPT ![w] = NoSession]
    /\ UNCHANGED <<storeVars, threadVars, printVars, sessionVars, valid,
                   candidateVars, paramVars, loader, matchVars>>

NextAutoload ==
    \/ \E w \in Sessions :
           \/ LoadBegin(w)
           \/ LoadDefault(w)
           \/ LoadCheckTried(w)
           \/ LoadDispatch(w)
           \/ LoadProceed(w)
           \/ LoadSnapshot(w)
    \/ LoadOnMain

SpecAutoload == Init /\ [][NextAutoload]_vars

\* the try-loads of cmd asked of the main thread: those still queued, those
\* it has run
TryLoads(cmd) ==
    Cardinality({i \in 1..Len(loader.queue) : loader.queue[i].cmd = cmd})
    + Cardinality({i \in 1..Len(loader.loads) :
                       /\ loader.loads[i].cmd = cmd
                       /\ ~loader.loads[i].reload})

\* C22: every load runs on the main thread; an autosuggestion asks for a load
\* without reload, and for one cmd at most one such load is ever asked for; a
\* default request has loaded its cmd with reload when it takes the snapshot.
C22_AutoloadDiscipline ==
    /\ \A i \in 1..Len(loader.loads) : loader.loads[i].on = "main"
    /\ \A cmd \in LoadCmds : TryLoads(cmd) <= 1
    /\ sess["main"].pc = "snapshot" =>
           /\ loader.loads # <<>>
           /\ loader.loads[Len(loader.loads)] =
                  [cmd |-> sess["main"].cmd, reload |-> TRUE, on |-> "main"]

(***************************************************************************)
(* short_ok and try_complete_variable                                      *)
(***************************************************************************)
MaxArgLen == 3

\* the strings over alphabet of at most n characters
Strs(alphabet, n) == UNION {[1..k -> alphabet] : k \in 0..n}

\* s[i] of a C string, counting from 1: the terminator past its end
At(s, i) == IF i \in 1..Len(s) THEN s[i] ELSE NUL

short_ok(arg, nextopt, allopt) ==
    IF At(arg, 1) # "-" THEN At(arg, 1) = NUL
    ELSE IF At(arg, 2) = "-" THEN FALSE
    ELSE IF StrFind(arg, nextopt) # 0 THEN FALSE
    ELSE \A i \in 2..Len(arg) :
             LET tmp == StrFind(allopt, arg[i])
             IN tmp # 0 /\ At(allopt, tmp + 1) # ":"

ShortOkArgs == Strs({"-", "a", "b"}, MaxArgLen)
ShortOkLetters == {"a", "b"}
ShortOkAllopts == Strs({"a", "b", ":"}, MaxArgLen)

\* a call of short_ok
ShortOk ==
    /\ probe = NoProbe
    /\ \E arg \in ShortOkArgs, nextopt \in ShortOkLetters,
          allopt \in ShortOkAllopts :
        /\ probe' = [fn |-> "short_ok", arg |-> arg, nextopt |-> nextopt,
                     allopt |-> allopt,
                     res |-> short_ok(arg, nextopt, allopt)]
        /\ UNCHANGED <<storeVars, threadVars, printVars, sessionVars, valid,
                       candidateVars, paramVars, autoloadVars, matcher>>

\* every character counted as one of a variable name
wcsvarchr_any(c) == TRUE

\* wcsvarchr(c): a letter, a digit or '_'
wcsvarchr(c) == c \in {"a", "b", "c", "l", "s", "x", "y", "X", "_"}

\* the loop of try_complete_variable from in_pos on (places count from 1,
\* variable_start 0 stands for -1)
RECURSIVE ScanVariable(_, _, _, _)
ScanVariable(str, in_pos, mode, variable_start) ==
    IF in_pos > Len(str) THEN variable_start
    ELSE LET c == str[in_pos]
             reset == IF wcsvarchr(c) THEN variable_start ELSE 0
         IN IF c = "\\" THEN ScanVariable(str, in_pos + 2, mode, reset)
            ELSE IF c = "$"
            THEN ScanVariable(str, in_pos + 1, mode,
                              IF mode \in {"e_unquoted", "e_double_quoted"}
                              THEN in_pos ELSE reset)
            ELSE IF c = "'"
            THEN ScanVariable(str, in_pos + 1,
                              IF mode = "e_single_quoted" THEN "e_unquoted"
                              ELSE IF mode = "e_unquoted" THEN "e_single_quoted"
                              ELSE mode, reset)
            ELSE IF c = "\""
            THEN ScanVariable(str, in_pos + 1,
                              IF mode = "e_double_quoted" THEN "e_unquoted"
                              ELSE IF mode = "e_unquoted" THEN "e_double_quoted"
                              ELSE mode, reset)
            ELSE ScanVariable(str, in_pos + 1, mode, reset)

\* whether complete_variable is called, and with which name to complete
try_complete_variable(str) ==
    LET variable_start == ScanVariable(str, 1, "e_unquoted", 0)
    IN IF variable_start # 0 /\ variable_start < Len(str)
       THEN [attempt |-> TRUE,
             var |-> SubSeq(str, variable_start + 1, Len(str))]
       ELSE [attempt |-> FALSE]

MaxTokenLen == 4

VariableTokens == Strs({"$", "a", "'", "\"", "\\"}, MaxTokenLen)

\* a call of try_complete_variable
TryVariable ==
    /\ probe = NoProbe
    /\ \E str \in VariableTokens :
        /\ probe' = [fn |-> "try_complete_variable", str |-> str,
                     res |-> try_complete_variable(str)]
        /\ UNCHANGED <<storeVars, threadVars, printVars, sessionVars, valid,
                       candidateVars, paramVars, autoloadVars, matcher>>

NextProbe ==
    \/ ShortOk
    \/ TryVariable

SpecProbe == Init /\ [][NextProbe]_vars

\* C27: short_ok is true exactly when arg is empty, or arg starts with one
\* '-', next_letter is not in arg, and every later character of arg occurs in
\* allopt with none of its occurrences there followed by ':'.
C27_ShortOk ==
    probe.fn = "short_ok" =>
        (probe.res <=>
            \/ probe.arg = <<>>
            \/ /\ probe.arg[1] = "-"
               /\ At(probe.arg, 2) # "-"
               /\ ~StrHas(probe.arg, probe.nextopt)
               /\ \A i \in 2..Len(probe.arg) :
                      /\ StrHas(probe.allopt, probe.arg[i])
                      /\ \A j \in 1..Len(probe.allopt) :
                             probe.allopt[j] = probe.arg[i] =>
                                 At(probe.allopt, j + 1) # ":")

\* the character at place p is the one a backslash takes with it: the one
\* before it is a backslash that is not itself taken
RECURSIVE Escaped(_, _)
Escaped(str, p) == p > 1 /\ str[p - 1] = "\\" /\ ~Escaped(str, p - 1)

\* the quote state in front of place p: quotes that are not escaped open and
\* close, a quote of the other kind inside a quotation is an ordinary character
RECURSIVE QuoteState(_, _)
QuoteState(str, p) ==
    IF p = 1 THEN "unquoted"
    ELSE LET q == QuoteState(str, p - 1)
             c == str[p - 1]
         IN IF Escaped(str, p - 1) THEN q
            ELSE IF c = "'" /\ q \in {"unquoted", "single"}
            THEN (IF q = "single" THEN "unquoted" ELSE "single")
            ELSE IF c = "\"" /\ q \in {"unquoted", "double"}
            THEN (IF q = "double" THEN "unquoted" ELSE "double")
            ELSE q

\* place p holds a '$' in unquoted or double-quoted state, only characters of
\* a variable name follow it, and there is at least one
DollarRun(str, p) ==
    /\ str[p] = "$"
    /\ QuoteState(str, p) \in {"unquoted", "double"}
    /\ p < Len(str)
    /\ \A i \in (p + 1)..Len(str) : wcsvarchr(str[i])

\* the result of try_complete_variable when the '$' places in `starts` are
\* the ones that may start a variable
VariableResultIs(starts) ==
    /\ probe.res.attempt <=> starts # {}
    /\ \A p \in starts :
           probe.res.var = SubSeq(probe.str, p + 1, Len(probe.str))

\* C28 as stated: completion is attempted exactly when the token ends in a
\* '$' run whose '$' is in unquoted or double-quoted state and does not come
\* immediately after a backslash; the name is what follows that '$'.
C28_VariableScan ==
    probe.fn = "try_complete_variable" =>
        VariableResultIs({p \in 1..Len(probe.str) :
                             /\ DollarRun(probe.str, p)
                             /\ ~(p > 1 /\ probe.str[p - 1] = "\\")})

\* C28 amended: completion is attempted exactly when the token ends in a '$'
\* run whose '$' is in unquoted or double-quoted state and is not escaped,
\* that is, not taken by a backslash that is itself not escaped; the name is
\* what follows that '$'.
C28_VariableScanEscaped ==
    probe.fn = "try_complete_variable" =>
        VariableResultIs({p \in 1..Len(probe.str) :
                             /\ DollarRun(probe.str, p)
                             /\ ~Escaped(probe.str, p)})

\* the variable in double quotes: "$a is completed as a
C28_Witness ==
    /\ probe.fn = "try_complete_variable"
    /\ probe.str = <<"\"", "$", "a">>
    /\ probe.res = [attempt |-> TRUE, var |-> <<"a">>]

(***************************************************************************)
(* complete_param: the loops over all_options                              *)
(***************************************************************************)
MaxSchemas == 2

\* param_match_old(e, optstr)
param_match_old(e, optstr) ==
    At(optstr, 1) = "-" /\ e.long_opt = SubSeq(optstr, 2, Len(optstr))

\* param_match(e, optstr)
param_match(e, optstr) ==
    \/ e.short_opt # NUL /\ e.short_opt = At(optstr, 2)
    \/ /\ ~e.old_mode
       /\ string_prefixes_string(<<"-", "-">>, optstr)
       /\ e.long_opt = SubSeq(optstr, 3, Len(optstr))

\* param_match2(e, optstr): the argument part of "-Iarg" or "--long=arg"
param_match2(e, optstr) ==
    LET len == Len(e.long_opt)
    IN IF e.short_opt # NUL /\ e.short_opt = At(optstr, 2)
       THEN [hit |-> TRUE, arg |-> SubSeq(optstr, 3, Len(optstr))]
       ELSE IF /\ ~e.old_mode
               /\ string_prefixes_string(<<"-", "-">>, optstr)
               /\ string_prefixes_string(e.long_opt,
                                         SubSeq(optstr, 3, Len(optstr)))
               /\ At(optstr, len + 3) = "="
       THEN [hit |-> TRUE, arg |-> SubSeq(optstr, len + 4, Len(optstr))]
       ELSE [hit |-> FALSE]

\* condition_test(o->condition) in a session where the conditions in
\* a.holds are the ones that succeed
ConditionHolds(o, a) == o.condition = <<>> \/ o.condition \in a.holds

\* the body of "if (param_match... && condition_test...)": result_mode is
\* applied and complete_from_args is called
ApplyOption(st, pass, o, arg) ==
    [st EXCEPT
       !.use_common = IF HasBit(o.result_mode, NO_COMMON) THEN FALSE ELSE @,
       !.use_files = IF HasBit(o.result_mode, NO_FILES) THEN FALSE ELSE @,
       !.events = Append(@, [pass |-> pass, kind |-> "args", o |-> o,
                             str |-> arg])]

\* one round of the loop of the common pass
CommonOption(st, o, lo, a) ==
    IF ~ConditionHolds(o, a) THEN st
    ELSE LET st1 == IF o.short_opt = NUL /\ o.long_opt = <<>>
                    THEN [st EXCEPT
                            !.use_files =
                                @ /\ ~HasBit(o.result_mode, NO_FILES),
                            !.events =
                                Append(@, [pass |-> "common", kind |-> "args",
                                           o |-> o, str |-> a.str])]
                    ELSE st
             short == IF /\ o.short_opt # NUL
                         /\ short_ok(a.str, o.short_opt, lo.short_opt_str)
                      THEN <<[pass |-> "common", kind |-> "short", o |-> o,
                              c |-> append_completion(<<o.short_opt>>,
                                                      C_(o.desc), {})]>>
                      ELSE <<>>
             long == ParamLongCandidates(o, a.str)
         IN IF Len(a.str) > 0 /\ a.use_switches
            THEN [st1 EXCEPT
                    !.events = @ \o short
                               \o [i \in 1..Len(long) |->
                                      [pass |-> "common", kind |-> "long",
                                       o |-> o, c |-> long[i].c]]]
            ELSE st1

\* one round of the loop of pass: "A" the combined option and argument, "old"
\* the old style options, "B" the short and GNU options, "common"
OptionStep(pass, st, o, lo, a) ==
    IF pass = "A"
    THEN (IF param_match2(o, a.str).hit /\ ConditionHolds(o, a)
          THEN ApplyOption(st, pass, o, param_match2(o, a.str).arg)
          ELSE st)
    ELSE IF pass = "old"
    THEN (IF o.old_mode /\ param_match_old(o, a.popt) /\ ConditionHolds(o, a)
          THEN [ApplyOption(st, pass, o, a.str)
                   EXCEPT !.old_style_match = TRUE]
          ELSE st)
    ELSE IF pass = "B"
    THEN (IF /\ ~o.old_mode
             /\ o.long_opt # <<>>
             /\ ~HasBit(o.result_mode, NO_COMMON)
          THEN st
          ELSE IF param_match(o, a.popt) /\ ConditionHolds(o, a)
          THEN ApplyOption(st, pass, o, a.str)
          ELSE st)
    ELSE CommonOption(st, o, lo, a)

RECURSIVE PassLoop(_, _, _, _, _)
PassLoop(pass, st, options, lo, a) ==
    IF options = <<>> THEN st
    ELSE PassLoop(pass, OptionStep(pass, st, Head(options), lo, a),
                  Tail(options), lo, a)

\* the body of the loop over all_options for the local_options_t lo
SchemaStep(st, lo, a) ==
    LET s0 == [st EXCEPT !.use_common = TRUE, !.old_style_match = FALSE]
        s1 == IF ~a.use_switches THEN s0
              ELSE IF At(a.str, 1) = "-"
              THEN PassLoop("A", s0, lo.options, lo, a)
              ELSE IF At(a.popt, 1) = "-"
              THEN LET so == PassLoop("old", s0, lo.options, lo, a)
                   IN IF ~so.old_style_match
                      THEN PassLoop("B", so, lo.options, lo, a)
                      ELSE so
              ELSE s0
    IN IF s1.use_common THEN PassLoop("common", s1, lo.options, lo, a)
       ELSE s1

RECURSIVE SchemaLoop(_, _, _)
SchemaLoop(st, all_options, a) ==
    IF all_options = <<>> THEN st
    ELSE SchemaLoop(SchemaStep(st, Head(all_options), a), Tail(all_options), a)

\* bool use_common=1, use_files=1 and nothing found yet
MatchStart ==
    [use_common |-> TRUE, use_files |-> TRUE, old_style_match |-> FALSE,
     events |-> <<>>]

\* complete_param from the loop over all_options to return use_files
complete_param(all_options, a) == SchemaLoop(MatchStart, all_options, a)

\* the options a snapshot may hold
MatchOptions ==
    {[short_opt |-> sh, long_opt |-> l, old_mode |-> old, result_mode |-> m,
      condition |-> cond, comp |-> comp, desc |-> <<>>, flags |-> {}] :
        sh \in {NUL, "a"}, l \in {<<>>, <<"x">>}, old \in BOOLEAN,
        m \in {0, NO_FILES, NO_COMMON, EXCLUSIVE},
        cond \in {<<>>, <<"c">>}, comp \in {<<>>, <<"y">>}}

\* the local_options_t of a schema with the one option o
LocalOf(o) ==
    [short_opt_str |-> ShortOptSuffix(o.short_opt, o.result_mode),
     options |-> <<o>>]

\* the schemas that may come before the last one: a positional option that
\* forbids files and one that does not
EarlierOptions ==
    {o \in MatchOptions :
        /\ o.short_opt = NUL /\ o.long_opt = <<>> /\ ~o.old_mode
        /\ o.condition = <<>> /\ o.comp = <<"y">>
        /\ o.result_mode \in {0, NO_FILES}}

MatchSnapshots ==
    {Append([i \in 1..Len(heads) |-> LocalOf(heads[i])], LocalOf(o)) :
        heads \in Strs(EarlierOptions, MaxSchemas - 1), o \in MatchOptions}

MatchStrs ==
    {<<>>, <<"v">>, <<"-">>, <<"-", "-", "X">>, <<"-", "a", "v">>,
     <<"-", "-", "x", "=", "v">>}

MatchPopts == {<<>>, <<"-", "a">>, <<"-", "x">>, <<"-", "-", "x">>}

\* one call of complete_param, from the snapshot on
CompleteParam ==
    /\ matcher = NoMatcher
    /\ \E all_options \in MatchSnapshots, str \in MatchStrs,
          popt \in MatchPopts, use_switches \in BOOLEAN,
          holds \in SUBSET {<<"c">>} :
        /\ LET a == [str |-> str, popt |-> popt,
                     use_switches |-> use_switches, holds |-> holds]
           IN matcher' = [pc |-> "returned", all_options |-> all_options,
                          a |-> a, res |-> complete_param(all_options, a)]
        /\ UNCHANGED <<storeVars, threadVars, printVars, sessionVars, valid,
                       candidateVars, paramVars, autoloadVars, probe>>

NextMatch == CompleteParam

SpecMatch == Init /\ [][NextMatch]_vars

\* complete_param has returned
Returned == matcher.pc = "returned"

\* the schemas of the call and the options of schema i
SchemaCount == Len(matcher.all_options)
OptionsOf(i) ==
    {matcher.all_options[i].options[j] :
        j \in 1..Len(matcher.all_options[i].options)}

\* the complete_from_args calls of pass for option o
ArgsEvents(pass, o) ==
    {i \in 1..Len(matcher.res.events) :
        /\ matcher.res.events[i].kind = "args"
        /\ matcher.res.events[i].pass = pass
        /\ matcher.res.events[i].o = o}

C24_PreviousTokenPass ==
    (/\ Returned
     /\ matcher.a.use_switches
     /\ At(matcher.a.popt, 1) = "-") =>
        \A i \in 1..SchemaCount : \A o \in OptionsOf(i) :
            (/\ o.old_mode
             /\ <<"-">> \o o.long_opt = matcher.a.popt
             /\ ConditionHolds(o, matcher.a)) =>
                \E e \in ArgsEvents("old", o) :
                    matcher.res.events[e].str = matcher.a.str

\* the call reaches the second loop of the previous-token pass in its only
\* schema: switches are used, the current token does not start with '-', the
\* previous one does, and no old style option matched
InSecondLoop ==
    /\ Returned
    /\ SchemaCount = 1
    /\ matcher.a.use_switches
    /\ At(matcher.a.str, 1) # "-"
    /\ At(matcher.a.popt, 1) = "-"
    /\ ~matcher.res.old_style_match

\* o is matched by the previous token: by its short letter or by --long
MatchedByPrevious(o) ==
    \/ o.short_opt # NUL /\ o.short_opt = At(matcher.a.popt, 2)
    \/ ~o.old_mode /\ <<"-", "-">> \o o.long_opt = matcher.a.popt

\* C25: in the second loop of the previous-token pass an option is passed
\* over exactly when it is a GNU option with an optional argument (not old
\* style, long_opt and arg_spec non-empty, NO_COMMON unset); any other option
\* matched by the previous token whose condition holds is applied.
C25_OptionalArgumentSkip ==
    InSecondLoop =>
        \A o \in OptionsOf(1) :
            (MatchedByPrevious(o) /\ ConditionHolds(o, matcher.a)) =>
                (ArgsEvents("B", o) = {} <=>
                    /\ ~o.old_mode
                    /\ o.long_opt # <<>>
                    /\ ~HasBit(o.result_mode, NO_COMMON)
                    /\ o.comp # <<>>)

\* the candidates the common pass appended for the long option o, in order:
\* text and whether REPLACES_TOKEN is set
LongCandidates(o) ==
    LET IsLong(e) == e.kind = "long" /\ e.o = o
        es == SelectSeq(matcher.res.events, IsLong)
    IN [i \in 1..Len(es) |->
           [text |-> es[i].c.completion,
            replaces |-> "REPLACES_TOKEN" \in es[i].c.flags]]

\* the spelling of the long option o
WholeOf(o) == (IF o.old_mode THEN <<"-">> ELSE <<"-", "-">>) \o o.long_opt

\* str is the beginning of whole letter for letter, or up to case
BeginsExactly(str, whole) ==
    Len(str) <= Len(whole) /\ \A i \in 1..Len(str) : str[i] = whole[i]
BeginsIgnoringCase(str, whole) ==
    Len(str) <= Len(whole)
    /\ \A i \in 1..Len(str) : towupper(str[i]) = towupper(whole[i])

\* the common pass ran over the only schema with a non-empty current token
InCommonPass ==
    /\ Returned
    /\ SchemaCount = 1
    /\ matcher.a.use_switches
    /\ matcher.a.str # <<>>
    /\ matcher.res.use_common

\* C26: in the common pass a long option whose spelling begins with the
\* current token gets the rest of the spelling as candidate (the whole
\* spelling with REPLACES_TOKEN if it begins with it only up to case), and a
\* GNU option with arg_spec and without NO_COMMON gets the same text with "="
\* as a candidate before that one; no other long candidates are appended.
C26_LongCandidates ==
    InCommonPass =>
        \A o \in OptionsOf(1) :
            (o.long_opt # <<>> /\ ConditionHolds(o, matcher.a)) =>
                LET str == matcher.a.str
                    whole == WholeOf(o)
                    exact == BeginsExactly(str, whole)
                    text == IF exact
                            THEN SubSeq(whole, Len(str) + 1, Len(whole))
                            ELSE whole
                    plain == [text |-> text, replaces |-> ~exact]
                    with_eq == [text |-> text \o <<"=">>, replaces |-> ~exact]
                IN LongCandidates(o) =
                       IF ~BeginsIgnoringCase(str, whole) THEN <<>>
                       ELSE IF /\ ~o.old_mode
                               /\ o.comp # <<>>
                               /\ ~HasBit(o.result_mode, NO_COMMON)
                       THEN <<with_eq, plain>>
                       ELSE <<plain>>

\* "--X" typed against the GNU option x with an optional argument: "--x="
\* and then "--x", both replacing the token
C26_Witness ==
    /\ InCommonPass
    /\ matcher.a.str = <<"-", "-", "X">>
    /\ \E o \in OptionsOf(1) :
           LongCandidates(o) =
               <<[text |-> <<"-", "-", "x", "=">>, replaces |-> TRUE],
                 [text |-> <<"-", "-", "x">>, replaces |-> TRUE]>>

(***************************************************************************)
(* C29: the description helper in one complete_cmd call                    *)
(***************************************************************************)
\* the __fish_describe_command runs of the request so far
DescribeRuns == SelectSeq(subshells, LAMBDA s : s.kind = "describe")

\* C29: during one complete_cmd call that wants descriptions the description
\* helper __fish_describe_command is executed at most once, whatever the
\* token, a token without '/' and not starting with '~' under a set PATH
\* included
C29_DescribeAtMostOnce ==
    (completer.live /\ wants_descriptions(completer)) => Len(DescribeRuns) <= 1

(***************************************************************************)
(* C30: an authoritative schema under complete_add and complete_remove     *)
(***************************************************************************)
\* the schema stored under the key of c is there and authoritative
AuthoritativeIn(set, c) ==
    \E i \in 1..Len(set) :
        /\ set[i].cmd = c.cmd
        /\ set[i].cmd_is_path = c.cmd_is_path
        /\ set[i].authoritative

\* this step is the body of a complete_set_authoritative call on the key of c
SetAuthoritativeOn(c) ==
    \E t \in Threads :
        /\ pc[t] = "auth_body"
        /\ pc'[t] # "auth_body"
        /\ call[t].cmd = c.cmd
        /\ call[t].cmd_is_path = c.cmd_is_path

\* C30: a schema made authoritative by complete_set_authoritative(cmd,
\* cmd_is_path, true) exists and stays authoritative through every later
\* complete_add and complete_remove on its key, until
\* complete_set_authoritative is called for the key again
C30_StaysAuthoritative ==
    [][\A i \in 1..Len(completion_set) :
          (completion_set[i].authoritative
           /\ ~SetAuthoritativeOn(completion_set[i]))
          => AuthoritativeIn(completion_set', completion_set[i])]_vars

====
